---- MODULE Spec2Model ----
(***************************************************************************)
(* A model of the cod-asset-importer add-on:                               *)
(*   - the binary reader of src/src/utils/file_io.py (read_fmt,            *)
(*     read_nullstr) over a byte buffer with a read offset;                *)
(*   - the triangle loops of import_ibsp / import_xmodel and the texture   *)
(*     import of src/src/addon/importer.py;                                *)
(*   - import_xmodel, import_ibsp and the material imports of importer.py  *)
(*     over the objects, materials and images of the Blender session;      *)
(*   - the operators of src/src/addon/operators.py;                        *)
(*   - reader calls on two open files, interleaved.                        *)
(* Each part has its own specification over its own variables; the other   *)
(* parts' variables stay at their initial values.                          *)
(***************************************************************************)
EXTENDS Integers, Sequences, FiniteSets, TLC

VARIABLES
    buf,         \* reader: the bytes of the opened file
    offset,      \* reader: the file object's read position
    pc,          \* reader: "idle", or "nullstr" inside read_nullstr's loop
    string,      \* reader: read_nullstr's local `string`
    character,   \* reader: read_nullstr's local `character`
    lastCall,    \* reader: the call made last (history)
    prevOffset,  \* reader: `offset` when the last call began (history)
    ret,         \* reader: what the last call returned or raised
    surface,     \* mesh: the decoded surface handed to the importer
    meshCall,    \* mesh: which importer built the mesh ("none" before)
    bm,          \* mesh: the bmesh built and the per-corner data set on it
    images,      \* texture: bpy.data.images, the image datablocks
    ddsFile,     \* texture: per texture, the state of '<texture>.dds' on disk
    iwiOk,       \* texture: per texture, whether '<texture>.iwi' decodes
    iwi2dds,     \* texture: whether bin/iwi2dds.exe is there
    texCall,     \* texture: the last _import_texture call and its outcome
    objects,     \* scene: bpy.data.objects, in order of creation
    materials,   \* scene: bpy.data.materials, in order of creation
    modelFiles,  \* disk: per model name, what the model's files decode to
    mapFile,     \* disk: what the map file decodes to
    matFiles,    \* disk: per material name, what 'materials/<name>' decodes to
    listing,     \* disk: the image files of the asset folder, in listing order
    impCall,     \* scene: the last import_xmodel / import_ibsp call (history)
    opCall,      \* operators: the last execute() and how it ended (history)
    files,       \* two readers: the two open files (bytes, offset, locals)
    trace,       \* two readers: per file, the calls made on it (history)
    results      \* two readers: per file, what each call returned (history)

readerVars == <<buf, offset, pc, string, character, lastCall, prevOffset, ret>>
meshVars == <<surface, meshCall, bm>>
texVars == <<images, ddsFile, iwiOk, iwi2dds, texCall>>

sceneVars == <<objects, materials, modelFiles, mapFile, matFiles, listing, impCall, opCall>>
pairVars == <<files, trace, results>>

vars == <<readerVars, meshVars, texVars, sceneVars, pairVars>>

\* what a part's actions leave alone
notReaderVars == <<meshVars, texVars, sceneVars, pairVars>>
notMeshVars == <<readerVars, texVars, sceneVars, pairVars>>
notTexVars == <<readerVars, meshVars, sceneVars, pairVars>>
notPairVars == <<readerVars, meshVars, texVars, sceneVars>>
\* an import changes the scene, the images and the .dds files
notImportVars == <<readerVars, meshVars, pairVars, iwiOk, iwi2dds,
                   modelFiles, mapFile, matFiles, listing>>

(***************************************************************************)
(* Bounds                                                                  *)
(***************************************************************************)
MaxLen == 3      \* longest buffer
MaxCount == 2    \* largest repeat count written in a format string
MaxTris == 2     \* most triangles of a surface
TexWidth == 2    \* width of the textures
TexHeight == 2   \* height of the textures

\* byte values a buffer is built from: NUL, an ASCII letter, a byte >= 0x80
ByteVals == {0, 65, 200}

Min(a, b) == IF a < b THEN a ELSE b

RECURSIVE SeqsUpTo(_, _)
SeqsUpTo(S, n) ==
    IF n = 0 THEN {<<>>}
    ELSE LET shorter == SeqsUpTo(S, n - 1)
         IN  shorter \cup {Append(s, x) : s \in {t \in shorter : Len(t) = n - 1}, x \in S}

Reverse(s) == [i \in 1..Len(s) |-> s[Len(s) + 1 - i]]

(***************************************************************************)
(* file_io.py: format strings                                              *)
(***************************************************************************)
\* the values of FMT_CHARACTER_CONSTANTS
FMT_CHARACTER_CONSTANTS ==
    {"c", "b", "B", "h", "H", "i", "I", "l", "L", "q", "Q", "f", "d"}

\* the fixed-width integer types the model decodes: unsigned char (1 byte)
\* and short (2 bytes, signed)
TypeChars == {"B", "h"}

DigitStr == <<"0", "1", "2", "3", "4", "5", "6", "7", "8", "9">>
DigitChars == {DigitStr[n + 1] : n \in 0..MaxCount}
DigitVal(d) == CHOOSE n \in 0..9 : DigitStr[n + 1] = d

\* format strings: one type character, a counted type, a type written twice
FmtStrs ==
    {<<c>> : c \in TypeChars}
    \cup {<<d, c>> : d \in DigitChars, c \in TypeChars}
    \cup {<<c, c>> : c \in TypeChars}

\* struct's standard size of a type (no native alignment under '<' and '>')
SizeOf(c) == IF c \in {"b", "B"} THEN 1 ELSE 2

\* the optional arguments of a call: the namedtuple (as its number of
\* fields, 0 for None) and the byte-order flag
CallOptions ==
    {[nt |-> 0, order |-> "<"], [nt |-> 0, order |-> ">"], [nt |-> 1, order |-> "<"]}

IsSigned(c) == c \in {"b", "h"}

Repeat(c, n) == [i \in 1..n |-> c]

\* struct's reading of a format: digits are a repeat count for the next type
RECURSIVE ParseFmt(_, _)
ParseFmt(s, rep) ==
    IF s = <<>> THEN <<>>
    ELSE IF Head(s) \in DigitChars
         THEN ParseFmt(Tail(s), (IF rep < 0 THEN 0 ELSE rep * 10) + DigitVal(Head(s)))
         ELSE Repeat(Head(s), IF rep < 0 THEN 1 ELSE rep) \o ParseFmt(Tail(s), -1)

RECURSIVE SumSizes(_)
SumSizes(types) ==
    IF types = <<>> THEN 0 ELSE SizeOf(Head(types)) + SumSizes(Tail(types))

\* struct.calcsize(fmt)
calcsize(fmt_str) == SumSizes(ParseFmt(fmt_str, -1))

(***************************************************************************)
(* file_io.py: reading and unpacking                                       *)
(***************************************************************************)
\* file.read(size): the bytes that are there, at most `size`; the position
\* moves past what was returned
FileRead_SkipsPastEnd(b, off, size) ==
    [data   |-> SubSeq(b, off + 1, Min(off + size, Len(b))),
     offset |-> off + size]

FileRead(b, off, size) ==
    LET k == Min(size, Len(b) - off)
    IN  [data |-> SubSeq(b, off + 1, off + k), offset |-> off + k]

RECURSIVE LittleEndian(_)
LittleEndian(bytes) ==
    IF bytes = <<>> THEN 0 ELSE Head(bytes) + 256 * LittleEndian(Tail(bytes))

Pow256(n) == IF n = 1 THEN 256 ELSE 65536

\* one value of type c from exactly SizeOf(c) bytes
DecodeValue_IgnoresOrder(c, order, bytes) ==
    LET u == LittleEndian(bytes)
    IN  IF IsSigned(c) /\ 2 * u >= Pow256(SizeOf(c)) THEN u - Pow256(SizeOf(c)) ELSE u

DecodeValue(c, order, bytes) ==
    LET u == IF order = "<" THEN LittleEndian(bytes) ELSE LittleEndian(Reverse(bytes))
    IN  IF IsSigned(c) /\ 2 * u >= Pow256(SizeOf(c)) THEN u - Pow256(SizeOf(c)) ELSE u

RECURSIVE UnpackValues(_, _, _)
UnpackValues(types, order, data) ==
    IF types = <<>> THEN <<>>
    ELSE LET n == SizeOf(Head(types))
         IN  <<DecodeValue(Head(types), order, SubSeq(data, 1, n))>>
             \o UnpackValues(Tail(types), order, SubSeq(data, n + 1, Len(data)))

\* struct.unpack(fmt, data_raw): raises unless data_raw has exactly calcsize bytes
unpack(fmt_str, order, data) ==
    IF Len(data) # calcsize(fmt_str)
    THEN [ok |-> FALSE, vals |-> <<>>]
    ELSE [ok |-> TRUE, vals |-> UnpackValues(ParseFmt(fmt_str, -1), order, data)]

\* `fmt_str in FMT_CHARACTER_CONSTANTS`: the string is one of the enum's values
InFmtConstants(fmt_str) ==
    Len(fmt_str) = 1 /\ fmt_str[1] \in FMT_CHARACTER_CONSTANTS

\* what read_fmt hands back once the bytes are unpacked; ntFields = 0 is
\* namedtuple = None, otherwise the number of fields of the namedtuple
\* (_make raises on a different number of values, which is logged)
ReturnShape(fmt_str, ntFields, vals) ==
    IF ntFields > 0 /\ ntFields = Len(vals) THEN "namedtuple"
    ELSE IF InFmtConstants(fmt_str) THEN "bare"
    ELSE "tuple"

\* read_fmt as a function of the file state: the new offset and the outcome
ReadFmt(b, off, fmt_str, ntFields, order) ==
    LET size == calcsize(fmt_str)
        r    == FileRead(b, off, size)
        u    == unpack(fmt_str, order, r.data)
    IN  IF ~u.ok
        THEN [offset |-> r.offset, kind |-> "struct_error", vals |-> <<>>]
        ELSE [offset |-> r.offset,
              kind   |-> ReturnShape(fmt_str, ntFields, u.vals),
              vals   |-> u.vals]

\* bytes.rstrip(b'\x00')
RStripNul_KeepsNul(s) == s

RECURSIVE RStripNul(_)
RStripNul(s) ==
    IF s # <<>> /\ s[Len(s)] = 0 THEN RStripNul(SubSeq(s, 1, Len(s) - 1)) ELSE s

\* bytes.decode('ascii'): raises on a byte above 0x7f
DecodeAscii(s) ==
    IF \A i \in 1..Len(s) : s[i] < 128
    THEN [kind |-> "str", vals |-> s]
    ELSE [kind |-> "decode_error", vals |-> <<>>]

None == <<-1>>
NoCall == [op |-> "none", fmt |-> <<>>, nt |-> 0, order |-> ""]
NoRet == [kind |-> "none", vals |-> <<>>]

(***************************************************************************)
(* importer.py: the triangle loops of import_ibsp and import_xmodel        *)
(***************************************************************************)
\* indices into a surface's vertex list
VertexIds == {0, 1, 2}

\* the vertex stored under index i: every attribute tells the vertices apart
Vertex(i) ==
    [position |-> <<"position", i>>,
     uv       |-> <<"uv", i>>,
     color    |-> <<"color", i>>,
     normal   |-> <<"normal", i>>,
     weights  |-> <<"weights", i>>]

Triangles == {<<a, b, c>> : a \in VertexIds, b \in VertexIds, c \in VertexIds}

EmptyBMesh ==
    [verts |-> <<>>, faces |-> <<>>, surface_uvs |-> <<>>,
     surface_vertex_colors |-> <<>>, surface_normals |-> <<>>,
     loops |-> <<>>, vertex_normal_buffer |-> <<>>]

\* import_ibsp: vertex1, vertex2, vertex3 of a stored triangle
IbspCorners_Unswapped(triangle) ==
    <<Vertex(triangle[1]), Vertex(triangle[2]), Vertex(triangle[3])>>

IbspCorners(triangle) ==
    <<Vertex(triangle[1]), Vertex(triangle[3]), Vertex(triangle[2])>>

\* import_xmodel: vertex1, vertex2, vertex3 of a stored triangle
XModelCorners(triangle) ==
    <<Vertex(triangle[1]), Vertex(triangle[3]), Vertex(triangle[2])>>

\* one pass of `for triangle in surface.triangles`: three new bmesh vertices
\* v1, v2, v3, the triangle's uv / color / normal lists, and the face
\* (v1, v2, v3); `weighted` is import_xmodel's deform layer
TriangleStep(b, corners, weighted) ==
    LET n  == Len(b.verts)
        nv == [k \in 1..3 |->
                 [co      |-> corners[k].position,
                  weights |-> IF weighted THEN corners[k].weights ELSE <<>>]]
    IN  [b EXCEPT
           !.verts = @ \o nv,
           !.surface_uvs = Append(@, [k \in 1..3 |-> corners[k].uv]),
           !.surface_vertex_colors = Append(@, [k \in 1..3 |-> corners[k].color]),
           !.surface_normals = Append(@, [k \in 1..3 |-> corners[k].normal]),
           !.faces = Append(@, <<n + 1, n + 2, n + 3>>)]

RECURSIVE IbspTriangles(_, _)
IbspTriangles(b, triangles) ==
    IF triangles = <<>> THEN b
    ELSE IbspTriangles(TriangleStep(b, IbspCorners(Head(triangles)), FALSE),
                       Tail(triangles))

RECURSIVE XModelTriangles(_, _)
XModelTriangles(b, triangles) ==
    IF triangles = <<>> THEN b
    ELSE XModelTriangles(TriangleStep(b, XModelCorners(Head(triangles)), TRUE),
                         Tail(triangles))

\* zip(a, b) stops at the shorter one
\* `for face, uv, color, normal in zip(bm.faces, ...)` and the inner zip over
\* face.loops: corner k of face f takes entry k of the f-th per-triangle lists
RECURSIVE FlattenRows(_)
FlattenRows(rows) == IF rows = <<>> THEN <<>> ELSE Head(rows) \o FlattenRows(Tail(rows))

SetLoops(b) ==
    LET nf == Min(Len(b.faces), Min(Len(b.surface_uvs),
                  Min(Len(b.surface_vertex_colors), Len(b.surface_normals))))
    IN  [b EXCEPT
           !.loops = [f \in 1..nf |->
                        [k \in 1..3 |->
                           [vert  |-> b.faces[f][k],
                            uv    |-> b.surface_uvs[f][k],
                            color |-> b.surface_vertex_colors[f][k]]]],
           !.vertex_normal_buffer =
               FlattenRows([f \in 1..nf |-> b.surface_normals[f]])]

(***************************************************************************)
(* importer.py: _import_texture                                            *)
(***************************************************************************)
TexNames == {"tex_a", "tex_b"}

\* what a run of iwi2dds.exe can do: write a loadable .dds, write one that
\* does not load, exit non-zero without writing, fail to start (exception)
ConverterOutcomes == {"converted", "wrote_corrupt", "exit_nonzero", "raised"}

\* the row order in which a loader hands over a .dds file's pixels
RowOrders == {"as_stored", "reversed"}

\* RGBA: `p.shape = (TEXTURE.height, TEXTURE.width, 4)`
Channels == 4

\* what IWi.load leaves in TEXTURE for a file that decodes: width, height and
\* texture_data, one value per channel, row after row
IwiTexture(name) ==
    [width        |-> TexWidth,
     height       |-> TexHeight,
     texture_data |-> [i \in 1..(TexWidth * TexHeight * Channels) |-> i]]

\* numpy.asarray(pixels) shaped (height, width, 4), numpy.flipud, flatten
FlipUD_None(pixels, width, height) == pixels

FlipUD(pixels, width, height) ==
    LET rowLen == width * Channels
    IN  [i \in 1..Len(pixels) |->
           LET r == (i - 1) \div rowLen
               c == (i - 1) % rowLen
           IN  pixels[(height - 1 - r) * rowLen + c + 1]]

\* the pixels bpy.data.images.load gives for a loadable '<texture>.dds'
DdsPixels(name, rows) ==
    LET t == IwiTexture(name)
    IN  IF rows = "as_stored" THEN t.texture_data
        ELSE FlipUD(t.texture_data, t.width, t.height)

NoImage == [name |-> <<"", "">>, width |-> 0, height |-> 0, pixels |-> <<>>,
            origin |-> "none", file_format |-> "", packed |-> FALSE]

\* bpy.data.images.get(texture_name): the datablock of that name
ImagesGet(store, texture_name) ==
    IF \E im \in store : im.name = <<texture_name, "">>
    THEN CHOOSE im \in store : im.name = <<texture_name, "">>
    ELSE NoImage

\* `if not os.path.isfile(texture_file + '.dds')` and `if os.path.isfile(iwi2dds)`
ShouldConvert_Always(dds, present) == present

ShouldConvert(dds, present) == dds = "absent" /\ present

\* the try/except around subprocess.run: a non-zero exit and an exception are
\* logged, nothing escapes
RunConverter_Propagates(dds, outcome) ==
    [dds     |-> IF outcome = "converted" THEN "valid"
                 ELSE IF outcome = "wrote_corrupt" THEN "corrupt" ELSE dds,
     events  |-> IF outcome \in {"exit_nonzero"}
                 THEN <<"run_iwi2dds", "log_error">> ELSE <<"run_iwi2dds">>,
     escaped |-> outcome = "raised"]

RunConverter(dds, outcome) ==
    [dds     |-> IF outcome = "converted" THEN "valid"
                 ELSE IF outcome = "wrote_corrupt" THEN "corrupt" ELSE dds,
     events  |-> IF outcome \in {"exit_nonzero", "raised"}
                 THEN <<"run_iwi2dds", "log_error">> ELSE <<"run_iwi2dds">>,
     escaped |-> FALSE]

\* lines 748-758: the conversion on the fly
ConvertStep(dds, present, outcome) ==
    IF ShouldConvert(dds, present)
    THEN LET r == RunConverter(dds, outcome)
         IN  [r EXCEPT !.events = <<"isfile_dds", "isfile_iwi2dds">> \o @]
    ELSE [dds     |-> dds,
          events  |-> IF dds = "absent" THEN <<"isfile_dds", "isfile_iwi2dds">>
                      ELSE <<"isfile_dds">>,
          escaped |-> FALSE]

\* bpy.data.images.load(texture_file + '.dds', check_existing=True): the
\* datablock already made from that file, or a new one named after the file;
\* raises when the file is missing or does not load
LoadDds(store, name, dds, rows) ==
    IF dds # "valid" THEN [ok |-> FALSE, image |-> NoImage, source |-> <<>>]
    ELSE IF \E im \in store : im.name = <<name, ".dds">>
    THEN LET im == CHOOSE x \in store : x.name = <<name, ".dds">>
         IN  [ok |-> TRUE, image |-> im, source |-> im.pixels]
    ELSE LET t == IwiTexture(name)
             px == DdsPixels(name, rows)
         IN  [ok |-> TRUE,
              image |-> [name |-> <<name, ".dds">>, width |-> t.width,
                         height |-> t.height, pixels |-> px, origin |-> "dds",
                         file_format |-> "", packed |-> FALSE],
              source |-> px]

\* lines 767-779: the fallback to the .iwi file
IwiFallback(name, decodes) ==
    IF ~decodes
    THEN [ok |-> FALSE, image |-> NoImage, source |-> <<>>,
          events |-> <<"iwi_load_failed", "log_error">>]
    ELSE LET t == IwiTexture(name)
         IN  [ok |-> TRUE,
              image |-> [name |-> <<name, "">>, width |-> t.width,
                         height |-> t.height,
                         pixels |-> FlipUD(t.texture_data, t.width, t.height),
                         origin |-> "iwi", file_format |-> "", packed |-> FALSE],
              source |-> t.texture_data,
              events |-> <<"iwi_load_ok", "images_new", "flipud">>]

\* lines 781-782
Finish(im) == [im EXCEPT !.file_format = "TARGA", !.packed = TRUE]

\* _import_texture as a function of the image store and the files: what it
\* returns, what it did, and the store and the .dds file afterwards
ImportTexture(store, name, dds, decodes, present, outcome, rows) ==
    LET have == ImagesGet(store, name)
        base == [name |-> name, cached |-> FALSE, ddsBefore |-> dds,
                 decodes |-> decodes, converter |-> "not_run", created |-> FALSE,
                 events |-> <<>>, ret |-> "none", image |-> NoImage,
                 source |-> <<>>]
    IN  IF have # NoImage
        THEN [call  |-> [base EXCEPT !.cached = TRUE, !.ret = "image", !.image = have],
              store |-> store, dds |-> dds]
        ELSE LET conv == ConvertStep(dds, present, outcome)
                 ran  == [base EXCEPT !.converter =
                            IF ShouldConvert(dds, present) THEN outcome ELSE "not_run"]
             IN  IF conv.escaped
                 THEN [call  |-> [ran EXCEPT !.events = conv.events, !.ret = "exception"],
                       store |-> store, dds |-> conv.dds]
                 ELSE LET ld == LoadDds(store, name, conv.dds, rows)
                          fb == IwiFallback(name, decodes)
                      IN  IF ld.ok
                          THEN LET im == Finish(ld.image)
                               IN  [call  |-> [ran EXCEPT
                                                 !.events = conv.events \o <<"load_dds_ok", "pack">>,
                                                 !.created =
                                                     ~\E x \in store : x.name = ld.image.name,
                                                 !.ret = "image", !.image = im,
                                                 !.source = ld.source],
                                    store |-> {x \in store : x.name # im.name} \cup {im},
                                    dds   |-> conv.dds]
                          ELSE IF fb.ok
                          THEN LET im == Finish(fb.image)
                               IN  [call  |-> [ran EXCEPT
                                                 !.events = conv.events \o <<"load_dds_failed">>
                                                            \o fb.events \o <<"pack">>,
                                                 !.created = TRUE,
                                                 !.ret = "image", !.image = im,
                                                 !.source = fb.source],
                                    store |-> store \cup {im},
                                    dds   |-> conv.dds]
                          ELSE [call  |-> [ran EXCEPT
                                             !.events = conv.events \o <<"load_dds_failed">>
                                                        \o fb.events,
                                             !.ret = "False"],
                                store |-> store, dds |-> conv.dds]

NoTexCall ==
    [name |-> "", cached |-> FALSE, ddsBefore |-> "", decodes |-> FALSE,
     converter |-> "not_run", created |-> FALSE, events |-> <<>>, ret |-> "none",
     image |-> NoImage, source |-> <<>>]

(***************************************************************************)
(* importer.py: the Blender session (objects, materials) and the files     *)
(***************************************************************************)
MaxMaterials == 2   \* most names in a material list
MaxSurfaces == 2    \* most surfaces of a model or a map
MaxBones == 2       \* most bones of a skeleton
MaxEntities == 2    \* most entities of a map
MaxImports == 2     \* most import calls in one session

VERSIONS == {"COD1", "COD2", "COD4"}

MatNames == {"mat_a", "mat_b"}
ModelNames == {"model_a", "model_b"}

\* A file or material name is the sequence of its dot-separated parts:
\* <<"mat_a", "v2", "dds">> is 'mat_a.v2.dds'.
\* os.path.splitext(name)[0]: the name without its last extension
SplitExt(name) ==
    IF Len(name) > 1 THEN SubSeq(name, 1, Len(name) - 1) ELSE name

RECURSIVE DotJoin(_)
DotJoin(parts) ==
    IF parts = <<>> THEN "" ELSE "." \o Head(parts) \o DotJoin(Tail(parts))

\* the name bpy.data.images.load gives the datablock: the file's base name
ImageNameOf(file_name) == <<Head(file_name), DotJoin(Tail(file_name))>>

NoMaterial == <<>>

\* bpy.data.materials.get(name): the material of exactly that name, or None
MaterialsGet(mats, name) ==
    IF \E i \in 1..Len(mats) : mats[i].name = name THEN name ELSE NoMaterial

NameTaken(mats, name) == \E i \in 1..Len(mats) : mats[i].name = name

Suffix(k) == "00" \o DigitStr[k + 1]

\* the name bpy.data.materials.new(name) ends up with: Blender appends
\* '.001', '.002', ... to a name that is taken
UniqueName(mats, name) ==
    IF ~NameTaken(mats, name) THEN name
    ELSE LET k == CHOOSE n \in 1..9 :
                     /\ ~NameTaken(mats, Append(name, Suffix(n)))
                     /\ \A j \in 1..(n - 1) : NameTaken(mats, Append(name, Suffix(j)))
         IN  Append(name, Suffix(k))

\* bpy.data.materials.new(name) and the node setup; `requested` is the name
\* the import was called with, `textures` the images of its texture nodes
MaterialsNew(mats, name, requested) ==
    Append(mats, [name |-> UniqueName(mats, name), requested |-> requested,
                  textures |-> <<>>])

\* The session an import works on is the record
\*   [objects, materials, images, dds, texCall]
\* and what it reads but does not change is the record
\*   [iwiOk, iwi2dds, outcome, rows, matFiles, listing]

\* `for i, t in enumerate(MATERIAL.textures)`: _import_texture for each
\* texture, a texture node for each image returned
RECURSIVE ImportTextures(_, _, _)
ImportTextures(st, env, textures) ==
    IF textures = <<>> THEN st
    ELSE LET t == Head(textures)
             n == Len(st.materials)
             Bind(r) ==
                 [st EXCEPT !.images = r.store,
                            !.dds = [@ EXCEPT ![t] = r.dds],
                            !.texCall = r.call,
                            !.materials[n].textures =
                                IF r.call.ret = "image"
                                THEN Append(@, r.call.image.name) ELSE @]
         IN  ImportTextures(
                 Bind(ImportTexture(st.images, t, st.dds[t], env.iwiOk[t],
                                    env.iwi2dds, env.outcome, env.rows)),
                 env, Tail(textures))

\* _import_material_v14(assetpath, material_name): material_name is the name
\* of an image file in the folder `folder` of the listing
ImportMaterialV14(st, env, folder, file_name) ==
    LET material_name == SplitExt(file_name)
        image_name    == ImageNameOf(file_name)
    IN  IF MaterialsGet(st.materials, material_name) # NoMaterial
        THEN [st |-> st, ret |-> TRUE, created |-> FALSE, loaded |-> <<>>]
        ELSE IF ~\E i \in 1..Len(env.listing[folder]) : env.listing[folder][i] = file_name
        THEN \* bpy.data.images.load raises, the except branch returns False
             [st |-> st, ret |-> FALSE, created |-> FALSE, loaded |-> <<file_name>>]
        ELSE LET im == [name |-> image_name, width |-> TexWidth, height |-> TexHeight,
                        pixels |-> IwiTexture(Head(file_name)).texture_data,
                        origin |-> "file", file_format |-> "", packed |-> FALSE]
                 imgs == IF \E x \in st.images : x.name = image_name
                         THEN st.images ELSE st.images \cup {im}
                 mats == MaterialsNew(st.materials, material_name, file_name)
             IN  [st |-> [st EXCEPT !.images = imgs,
                                    !.materials =
                                        [mats EXCEPT ![Len(mats)].textures = <<image_name>>]],
                  ret |-> TRUE, created |-> TRUE, loaded |-> <<file_name>>]

\* MATERIAL.load(version, 'materials/<material_name>'): the decoded file, or
\* a failed load when there is no such file
NoMatFile == [loads |-> FALSE, name |-> <<>>, textures |-> <<>>]

MaterialLoad(env, material_name) ==
    IF Len(material_name) = 1 /\ Head(material_name) \in DOMAIN env.matFiles
    THEN env.matFiles[Head(material_name)]
    ELSE NoMatFile

\* _import_material_v20(assetpath, material_name)
ImportMaterialV20(st, env, material_name) ==
    IF MaterialsGet(st.materials, material_name) # NoMaterial
    THEN [st |-> st, ret |-> TRUE, created |-> FALSE, loaded |-> <<>>]
    ELSE LET MATERIAL == MaterialLoad(env, material_name)
         IN  IF ~MATERIAL.loads
             THEN [st |-> st, ret |-> FALSE, created |-> FALSE,
                   loaded |-> <<material_name>>]
             ELSE LET made == [st EXCEPT !.materials =
                                  MaterialsNew(@, MATERIAL.name, material_name)]
                  IN  [st |-> ImportTextures(made, env, MATERIAL.textures),
                       ret |-> TRUE, created |-> TRUE, loaded |-> <<material_name>>]

\* _import_material_v25(assetpath, material_name): the same steps on a file
\* decoded as version COD4
ImportMaterialV25(st, env, material_name) ==
    IF MaterialsGet(st.materials, material_name) # NoMaterial
    THEN [st |-> st, ret |-> TRUE, created |-> FALSE, loaded |-> <<>>]
    ELSE LET MATERIAL == MaterialLoad(env, material_name)
         IN  IF ~MATERIAL.loads
             THEN [st |-> st, ret |-> FALSE, created |-> FALSE,
                   loaded |-> <<material_name>>]
             ELSE LET made == [st EXCEPT !.materials =
                                  MaterialsNew(@, MATERIAL.name, material_name)]
                  IN  [st |-> ImportTextures(made, env, MATERIAL.textures),
                       ret |-> TRUE, created |-> TRUE, loaded |-> <<material_name>>]

(***************************************************************************)
(* importer.py: import_xmodel                                              *)
(***************************************************************************)
\* bpy.data.objects.new(name, data): no parent, not linked to the scene, at
\* the origin; an object is known by its position in bpy.data.objects
NewObject(name, type, data) ==
    [name |-> name, type |-> type, data |-> data, parent |-> 0, linked |-> FALSE,
     location |-> <<0, 0, 0>>, scale |-> <<1, 1, 1>>, rotation_euler |-> <<0, 0, 0>>,
     active_material |-> NoMaterial, modifiers |-> <<>>, vertex_groups |-> <<>>,
     copy_of |-> 0]

NoData == [kind |-> "none"]

\* the bones of a skeleton file with n bones: a root and a chain below it
Bones(n) == [i \in 1..n |-> [name |-> <<"bone", i>>, parent |-> i - 2]]

\* the name a surface's material is looked up under (lines 230-233)
XModelMaterialKey(version, entry) ==
    IF version = "COD1" THEN SplitExt(entry) ELSE entry

\* `for material in lod0.materials` (lines 217-223)
RECURSIVE XModelMaterials(_, _, _, _)
XModelMaterials(st, env, version, names) ==
    IF names = <<>> THEN st
    ELSE LET r == IF version = "COD1"
                  THEN ImportMaterialV14(st, env, "skins", Head(names))
                  ELSE IF version = "COD2"
                  THEN ImportMaterialV20(st, env, Head(names))
                  ELSE ImportMaterialV25(st, env, Head(names))
         IN  XModelMaterials(r.st, env, version, Tail(names))

\* `for i, surface in enumerate(XMODELSURF.surfaces)` (lines 226-316), from
\* surface i on: the mesh object is made, then lod0.materials[i] is read,
\* which raises IndexError when the list has no i-th name
RECURSIVE XModelMeshes(_, _, _, _)
XModelMeshes(st, XMODEL, lod0, i) ==
    IF i > Len(XMODEL.surf.surfaces) THEN [st |-> st, raised |-> FALSE]
    ELSE LET obj == NewObject(XMODEL.surf.name, "MESH", NoData)
         IN  IF i > Len(lod0.materials)
             THEN [st |-> [st EXCEPT !.objects = Append(@, obj)], raised |-> TRUE]
             ELSE LET key  == XModelMaterialKey(XMODEL.version, lod0.materials[i])
                      mesh == SetLoops(XModelTriangles(EmptyBMesh,
                                                       XMODEL.surf.surfaces[i]))
                      done == [obj EXCEPT
                                 !.active_material = MaterialsGet(st.materials, key),
                                 !.linked = TRUE,
                                 !.data = [kind |-> "mesh", bm |-> mesh]]
                  IN  XModelMeshes([st EXCEPT !.objects = Append(@, done)],
                                   XMODEL, lod0, i + 1)

\* `if import_skeleton and XMODELPART != None and len(XMODELPART.bones) > 1`
CreateSkeleton(import_skeleton, XMODELPART) ==
    import_skeleton /\ XMODELPART.loads /\ Len(XMODELPART.bones) > 1

\* lines 377-389: every mesh object under the skeleton, with vertex groups
\* and the armature modifier, or under the model's null
ParentMeshes(objs, first, last, xmodel_null, skeleton, bones) ==
    [k \in 1..Len(objs) |->
        IF k < first \/ k > last THEN objs[k]
        ELSE IF skeleton = 0 THEN [objs[k] EXCEPT !.parent = xmodel_null]
        ELSE [objs[k] EXCEPT
                !.vertex_groups = [b \in 1..Len(bones) |-> bones[b].name],
                !.parent = skeleton,
                !.modifiers = Append(@, [name |-> "armature_rig", type |-> "ARMATURE",
                                         object |-> skeleton,
                                         use_bone_envelopes |-> FALSE,
                                         use_vertex_groups |-> TRUE])]]

RetFalse == [kind |-> "False", id |-> 0]
RetRaised == [kind |-> "exception", id |-> 0]
RetObject(k) == [kind |-> "object", id |-> k]

\* import_xmodel(assetpath, filepath, import_skeleton) on the decoded files
\* XMODEL: what it returns (or that it raised) and the session afterwards.
\* A failed load of the skeleton file leaves XMODELPART = None.
ImportXModel(st, env, XMODEL, import_skeleton) ==
    IF ~XMODEL.loads THEN [st |-> st, ret |-> RetFalse]
    ELSE IF XMODEL.lods = <<>>
    THEN \* `lod0 = XMODEL.lods[0]` raises IndexError
         [st |-> st, ret |-> RetRaised]
    ELSE IF ~XMODEL.surf.loads THEN [st |-> st, ret |-> RetFalse]
    ELSE LET lod0        == XMODEL.lods[1]
             xmodel_null == Len(st.objects) + 1
             s1 == [st EXCEPT !.objects =
                       Append(@, [NewObject(XMODEL.name, "EMPTY", NoData)
                                    EXCEPT !.linked = TRUE])]
             make == CreateSkeleton(import_skeleton, XMODEL.part)
             \* lines 318-398, after the surface loop m
             Rig(m) ==
                 IF m.raised THEN [st |-> m.st, ret |-> RetRaised]
                 ELSE [st |-> [m.st EXCEPT !.objects =
                                 ParentMeshes(
                                   IF make
                                   THEN Append(@,
                                          [NewObject(lod0.name \o "_skeleton", "ARMATURE",
                                                     [kind |-> "armature",
                                                      name |-> lod0.name \o "_armature",
                                                      bones |-> XMODEL.part.bones])
                                             EXCEPT !.parent = xmodel_null,
                                                    !.linked = TRUE])
                                   ELSE @,
                                   xmodel_null + 1, Len(@), xmodel_null,
                                   IF make THEN Len(@) + 1 ELSE 0,
                                   XMODEL.part.bones)],
                       ret |-> RetObject(xmodel_null)]
         IN  Rig(XModelMeshes(
                   XModelMaterials(s1, env, XMODEL.version, lod0.materials),
                   XMODEL, lod0, 1))

(***************************************************************************)
(* importer.py: import_ibsp                                                *)
(***************************************************************************)
\* vec.to_tuple()
ToTuple(v) == <<v.x, v.y, v.z>>

\* math.radians(degrees), in thousandths of a radian (rounded down)
Radians(degrees) == (degrees * 31416) \div 1800

\* lines 43-52: the map's null and the two nulls parented to it
MapNulls_EntitiesUnderGeometry(objs, name) ==
    LET map_null == Len(objs) + 1
    IN  objs \o <<[NewObject(name, "EMPTY", NoData) EXCEPT !.linked = TRUE],
                  [NewObject(name \o "_geometry", "EMPTY", NoData)
                     EXCEPT !.linked = TRUE, !.parent = map_null],
                  [NewObject(name \o "_entities", "EMPTY", NoData)
                     EXCEPT !.linked = TRUE, !.parent = map_null + 1]>>

MapNulls(objs, name) ==
    LET map_null == Len(objs) + 1
    IN  objs \o <<[NewObject(name, "EMPTY", NoData) EXCEPT !.linked = TRUE],
                  [NewObject(name \o "_geometry", "EMPTY", NoData)
                     EXCEPT !.linked = TRUE, !.parent = map_null],
                  [NewObject(name \o "_entities", "EMPTY", NoData)
                     EXCEPT !.linked = TRUE, !.parent = map_null]>>

\* does the file match the pattern '<material_name>.*'
GlobMatches(file_name, material_name) ==
    /\ Len(file_name) > Len(material_name)
    /\ SubSeq(file_name, 1, Len(material_name)) = material_name

\* lines 61-64: the first file glob.iglob yields for '<material_name>.*', or
\* '' (the empty name) when nothing matches
GlobFirst(folder, material_name) ==
    LET hits == {i \in 1..Len(folder) : GlobMatches(folder[i], material_name)}
    IN  IF hits = {} THEN <<>>
        ELSE folder[CHOOSE i \in hits : \A j \in hits : i <= j]

\* `for material in IBSP.materials` (lines 55-71); `log` lists, entry by
\* entry, what was done with it
RECURSIVE IbspMaterials(_, _, _, _, _)
IbspMaterials(st, env, version, names, log) ==
    IF names = <<>> THEN [st |-> st, log |-> log]
    ELSE IF version = "COD1"
    THEN LET texture_file == GlobFirst(env.listing.root, <<Head(names)>>)
         IN  IF texture_file = <<>>
             THEN IbspMaterials(st, env, version, Tail(names),
                                Append(log, [entry |-> Head(names), via |-> "skipped",
                                             arg |-> <<>>]))
             ELSE IbspMaterials(ImportMaterialV14(st, env, "root", texture_file).st,
                                env, version, Tail(names),
                                Append(log, [entry |-> Head(names), via |-> "v14",
                                             arg |-> texture_file]))
    ELSE IbspMaterials(ImportMaterialV20(st, env, <<Head(names)>>).st,
                       env, version, Tail(names),
                       Append(log, [entry |-> Head(names), via |-> "v20",
                                    arg |-> <<Head(names)>>]))

\* `for surface in IBSP.surfaces` (lines 74-152): a mesh object under the
\* geometry null with the material looked up under the surface's name for it
RECURSIVE IbspSurfaces(_, _, _)
IbspSurfaces(st, surfaces, map_geometry_null) ==
    IF surfaces = <<>> THEN st
    ELSE LET s   == Head(surfaces)
             obj == [NewObject(st.objects[map_geometry_null].name, "MESH",
                               [kind |-> "mesh",
                                bm   |-> SetLoops(IbspTriangles(EmptyBMesh, s.triangles))])
                       EXCEPT !.parent = map_geometry_null,
                              !.active_material = MaterialsGet(st.materials, <<s.material>>),
                              !.linked = TRUE]
         IN  IbspSurfaces([st EXCEPT !.objects = Append(@, obj)], Tail(surfaces),
                          map_geometry_null)

\* is object k the object `root` or parented, directly or not, under it
RECURSIVE IsUnder(_, _, _, _)
IsUnder(objs, k, root, fuel) ==
    \/ k = root
    \/ /\ fuel > 0
       /\ objs[k].parent # 0
       /\ IsUnder(objs, objs[k].parent, root, fuel - 1)

\* blenderutils.copy_object_hierarchy(root): copies of the object and of all
\* that is parented under it, the copy of the object itself first
CopyObjectHierarchy(objs, root) ==
    LET under  == {k \in 1..Len(objs) : k # root /\ IsUnder(objs, k, root, Len(objs))}
        rank(k) == IF k = root THEN 1
                   ELSE 1 + Cardinality({j \in under : j <= k})
        n      == Len(objs)
        src(i) == CHOOSE k \in under \cup {root} : rank(k) = i
    IN  objs \o [i \in 1..(Cardinality(under) + 1) |->
                   LET k == src(i)
                   IN  [objs[k] EXCEPT
                          !.copy_of = k,
                          !.parent = IF k # root /\ (@ = root \/ @ \in under)
                                     THEN n + rank(@) ELSE @]]

\* lines 168-172
EntityRotation_XYZ(angles) ==
    <<Radians(angles.x), Radians(angles.y), Radians(angles.z)>>

EntityRotation(angles) ==
    <<Radians(angles.z), Radians(angles.x), Radians(angles.y)>>

\* lines 165-172: the entity's object under the entities null, placed as the
\* entity record says
PlaceEntity_MovesFirst(objs, entity_null, map_entities_null, entity) ==
    LET k == IF objs[entity_null].copy_of # 0 THEN objs[entity_null].copy_of
             ELSE entity_null
    IN  [objs EXCEPT ![entity_null].parent = map_entities_null,
                     ![k].location = ToTuple(entity.origin),
                     ![k].scale = ToTuple(entity.scale),
                     ![k].rotation_euler = EntityRotation(entity.angles)]

PlaceEntity(objs, entity_null, map_entities_null, entity) ==
    [objs EXCEPT ![entity_null].parent = map_entities_null,
                 ![entity_null].location = ToTuple(entity.origin),
                 ![entity_null].scale = ToTuple(entity.scale),
                 ![entity_null].rotation_euler = EntityRotation(entity.angles)]

\* lines 174-175: unique_entities, as the object remembered under each name
\* (0 for a name that is not a key)
Remember_Never(unique_entities, name, entity_null) == unique_entities

Remember(unique_entities, name, entity_null) ==
    IF unique_entities[name] = 0 /\ entity_null # 0
    THEN [unique_entities EXCEPT ![name] = entity_null]
    ELSE unique_entities

\* `for entity in IBSP.entities` (lines 156-175), from entity i on.  acc is
\* [st, unique_entities, xmodelCalls, placed, raised]: the session, the
\* dictionary, the import_xmodel calls made (entity, name, result), the
\* object of each entity (0 for none), and whether an exception left the loop
RECURSIVE IbspEntities(_, _, _, _, _, _)
IbspEntities(acc, env, entities, models, map_entities_null, i) ==
    IF i > Len(entities) THEN acc
    ELSE LET entity == entities[i]
             known  == acc.unique_entities[entity.name] # 0
             \* lines 164-175, with r what the copy or the import gave
             Place(r) ==
                 LET calls == IF known THEN acc.xmodelCalls
                              ELSE Append(acc.xmodelCalls,
                                          [entity |-> i, name |-> entity.name,
                                           ret |-> r.ret.kind])
                     entity_null == IF r.ret.kind = "object" THEN r.ret.id ELSE 0
                 IN  IF r.ret.kind = "exception"
                     THEN [acc EXCEPT !.st = r.st, !.xmodelCalls = calls,
                                      !.raised = TRUE]
                     ELSE [st |-> IF entity_null = 0 THEN r.st
                                  ELSE [r.st EXCEPT !.objects =
                                          PlaceEntity(@, entity_null, map_entities_null,
                                                      entity)],
                           unique_entities |->
                               Remember(acc.unique_entities, entity.name, entity_null),
                           xmodelCalls |-> calls,
                           placed |-> Append(acc.placed, entity_null),
                           raised |-> FALSE]
             Continue(a) ==
                 IF a.raised THEN a
                 ELSE IbspEntities(a, env, entities, models, map_entities_null, i + 1)
         IN  Continue(Place(
                 IF known
                 THEN [st  |-> [acc.st EXCEPT !.objects =
                                  CopyObjectHierarchy(@, acc.unique_entities[entity.name])],
                       ret |-> RetObject(Len(acc.st.objects) + 1)]
                 ELSE ImportXModel(acc.st, env, models[entity.name], TRUE)))

\* import_ibsp(assetpath, filepath) on the decoded map IBSP and the model
\* files of its entities: what it returns (or that it raised), the session
\* afterwards, and what it did on the way
ImportIbsp(st, env, IBSP, models) ==
    IF ~IBSP.loads
    THEN [st |-> st, ret |-> RetFalse, xmodelCalls |-> <<>>, placed |-> <<>>,
          materialLog |-> <<>>]
    ELSE LET map_null == Len(st.objects) + 1
             s1 == [st EXCEPT !.objects = MapNulls(@, IBSP.name)]
             \* what the call gives, with the material log and the entity loop e
             Result(log, e) ==
                 [st |-> e.st,
                  ret |-> IF e.raised THEN RetRaised
                          ELSE [kind |-> "True", id |-> map_null],
                  xmodelCalls |-> e.xmodelCalls, placed |-> e.placed,
                  materialLog |-> log]
             \* lines 74-175, after the material loop m
             Geometry(m) ==
                 Result(m.log,
                        IbspEntities([st |-> IbspSurfaces(m.st, IBSP.surfaces,
                                                          map_null + 1),
                                      unique_entities |-> [n \in ModelNames |-> 0],
                                      xmodelCalls |-> <<>>, placed |-> <<>>,
                                      raised |-> FALSE],
                                     env, IBSP.entities, models, map_null + 2, 1))
         IN  Geometry(IbspMaterials(s1, env, IBSP.version, IBSP.materials, <<>>))

(***************************************************************************)
(* The files an import reads                                               *)
(***************************************************************************)
\* LOD 0 of a model: COD1 lists its materials as image file names, the later
\* versions as material names
Lod(version, names) ==
    [name      |-> "lod0",
     materials |-> [i \in 1..Len(names) |->
                      IF version = "COD1" THEN <<names[i], "dds">> ELSE <<names[i]>>]]

NoPart == [loads |-> FALSE, bones |-> <<>>]
NoSurf == [loads |-> FALSE, name |-> "", surfaces |-> <<>>]

\* skeleton files: one that does not load, and one of every length
PartFiles == {NoPart} \cup {[loads |-> TRUE, bones |-> Bones(n)] : n \in 1..MaxBones}

\* mesh files: one that does not load, and one of every number of surfaces
SurfFiles ==
    {NoSurf} \cup {[loads |-> TRUE, name |-> "lod0",
                    surfaces |-> [i \in 1..n |-> <<<<0, 1, 2>>>>]] : n \in 0..MaxSurfaces}

NoModel ==
    [loads |-> FALSE, name |-> "", version |-> "COD1", lods |-> <<>>,
     part |-> NoPart, surf |-> NoSurf]

\* what the three files of a model can decode to
ModelFiles ==
    {NoModel}
    \cup {[NoModel EXCEPT !.loads = TRUE, !.version = v] : v \in VERSIONS}
    \cup {[loads |-> TRUE, name |-> "", version |-> v, lods |-> <<Lod(v, names)>>,
           part |-> p, surf |-> s] :
             v \in VERSIONS, names \in SeqsUpTo(MatNames, MaxMaterials),
             p \in PartFiles, s \in SurfFiles}

\* 'materials/<name>' files: missing, or holding a name and texture bindings
MatFileStates ==
    {NoMatFile}
    \cup {[loads |-> TRUE, name |-> <<m>>, textures |-> t] :
             m \in MatNames, t \in {<<>>, <<"tex_a">>}}

\* the material folders the model imports run on: no file; every file named
\* as it is stored; 'mat_a' holding the name 'mat_b' and a texture
MatDisks ==
    {[m \in MatNames |-> NoMatFile],
     [m \in MatNames |-> [loads |-> TRUE, name |-> <<m>>, textures |-> <<>>]],
     [m \in MatNames |->
        IF m = "mat_a"
        THEN [loads |-> TRUE, name |-> <<"mat_b">>, textures |-> <<"tex_a">>]
        ELSE [loads |-> TRUE, name |-> <<m>>, textures |-> <<>>]]}

\* image files: 'skins' for the models, 'root' the asset folder in the order
\* glob lists it
NoListing == [root |-> <<>>, skins |-> <<>>]
SkinsListing == [root |-> <<>>, skins |-> <<<<"mat_a", "dds">>>>]

NoMap ==
    [loads |-> FALSE, name |-> "", version |-> "COD2", materials |-> <<>>,
     surfaces |-> <<>>, entities |-> <<>>]

NoImpCall ==
    [op |-> "none", seq |-> 0, name |-> "", import_skeleton |-> FALSE,
     ret |-> RetFalse, objects |-> <<>>, materials |-> <<>>,
     xmodelCalls |-> <<>>, placed |-> <<>>, materialLog |-> <<>>,
     requested |-> <<>>, created |-> FALSE, loaded |-> <<>>]

NoOpCall == [op |-> "none", filepath |-> <<>>, assetpath |-> <<>>, called |-> <<>>,
             ret |-> ""]

Session == [objects |-> objects, materials |-> materials, images |-> images,
            dds |-> ddsFile, texCall |-> texCall]

Env(outcome, rows) ==
    [iwiOk |-> iwiOk, iwi2dds |-> iwi2dds, outcome |-> outcome, rows |-> rows,
     matFiles |-> matFiles, listing |-> listing]

(***************************************************************************)
(* Model imports in one session                                            *)
(***************************************************************************)
InitXModel ==
    /\ objects = <<>>
    /\ materials = <<>>
    /\ \E f \in ModelFiles : modelFiles = [n \in ModelNames |-> [f EXCEPT !.name = n]]
    /\ mapFile = NoMap
    /\ matFiles \in MatDisks
    /\ listing = SkinsListing
    /\ impCall = NoImpCall
    /\ opCall = NoOpCall
    /\ images = {} /\ ddsFile = [n \in TexNames |-> "absent"]
    /\ iwiOk = [n \in TexNames |-> TRUE] /\ iwi2dds = FALSE /\ texCall = NoTexCall
    /\ buf = <<>> /\ offset = 0 /\ pc = "idle" /\ string = <<>>
    /\ character = None /\ lastCall = NoCall /\ prevOffset = 0 /\ ret = NoRet
    /\ surface = <<>> /\ meshCall = "none" /\ bm = EmptyBMesh
    /\ files = <<>> /\ trace = <<>> /\ results = <<>>

\* import_xmodel(assetpath, 'xmodel/<name>', import_skeleton)
import_xmodel(name, import_skeleton, outcome, rows) ==
    /\ impCall.seq < MaxImports
    /\ \E r \in {ImportXModel(Session, Env(outcome, rows), modelFiles[name],
                               import_skeleton)} :
           /\ objects' = r.st.objects
           /\ materials' = r.st.materials
           /\ images' = r.st.images
           /\ ddsFile' = r.st.dds
           /\ texCall' = r.st.texCall
           /\ impCall' = [NoImpCall EXCEPT
                            !.op = "import_xmodel", !.seq = impCall.seq + 1,
                            !.name = name, !.import_skeleton = import_skeleton,
                            !.ret = r.ret, !.objects = objects,
                            !.materials = materials]
    /\ UNCHANGED <<opCall, notImportVars>>

\* what a run of the converter can do in this session: without the exe there
\* is no run
OutcomeChoices == IF iwi2dds THEN ConverterOutcomes ELSE {"raised"}

\* the row orders a .dds load can deliver in this session: without the exe
\* and without a .dds file there is no such load
RowChoices ==
    IF iwi2dds \/ \E n \in TexNames : ddsFile[n] # "absent"
    THEN RowOrders ELSE {"as_stored"}

NextXModel ==
    \E name \in ModelNames, import_skeleton \in BOOLEAN,
       outcome \in OutcomeChoices, rows \in RowChoices :
        import_xmodel(name, import_skeleton, outcome, rows)

SpecXModel == InitXModel /\ [][NextXModel]_vars

(***************************************************************************)
(* Map imports in one session                                              *)
(***************************************************************************)
\* where and how an entity record puts its model: origin, scale and angles
\* (degrees), each with three different components
Placements ==
    {[origin |-> [x |-> 1, y |-> 2, z |-> 3], scale |-> [x |-> 1, y |-> 1, z |-> 1],
      angles |-> [x |-> 10, y |-> 90, z |-> 180]],
     [origin |-> [x |-> 4, y |-> 5, z |-> 6], scale |-> [x |-> 2, y |-> 3, z |-> 4],
      angles |-> [x |-> -45, y |-> 0, z |-> 270]]}

Entities ==
    {[name |-> n, origin |-> p.origin, scale |-> p.scale, angles |-> p.angles] :
        n \in ModelNames, p \in Placements}

\* a map surface that uses the material `name`
MapSurface(name) == [material |-> name, triangles |-> <<<<0, 1, 2>>>>]

\* the model files behind an entity name: a model with a skeleton, one mesh
\* and one material; files that do not load; a model without LODs; a model
\* with two surfaces and one material name
GoodModel ==
    [loads |-> TRUE, name |-> "", version |-> "COD2",
     lods |-> <<Lod("COD2", <<"mat_a">>)>>,
     part |-> [loads |-> TRUE, bones |-> Bones(2)],
     surf |-> [loads |-> TRUE, name |-> "lod0", surfaces |-> <<<<<<0, 1, 2>>>>>>]]

EntityModels ==
    {GoodModel,
     NoModel,
     [NoModel EXCEPT !.loads = TRUE, !.version = "COD2"],
     [GoodModel EXCEPT !.surf.surfaces = <<<<<<0, 1, 2>>>>, <<<<0, 2, 1>>>>>>]}

\* maps for the entity loop: with or without a material and a surface, and
\* every list of entities
EntityMaps ==
    {NoMap}
    \cup {[loads |-> TRUE, name |-> "map", version |-> v, materials |-> m,
           surfaces |-> s, entities |-> e] :
             v \in {"COD1", "COD2"}, m \in {<<>>, <<"mat_a">>},
             s \in {<<>>, <<MapSurface("mat_a")>>},
             e \in SeqsUpTo(Entities, MaxEntities)}

\* maps for the material loop: every material table, surfaces that use names
\* of the table, no entity
MaterialMaps ==
    {[loads |-> TRUE, name |-> "map", version |-> v, materials |-> m,
      surfaces |-> [i \in 1..Len(s) |-> MapSurface(s[i])], entities |-> <<>>] :
        v \in {"COD1", "COD2"}, m \in SeqsUpTo(MatNames, MaxMaterials),
        s \in SeqsUpTo(MatNames, MaxSurfaces)}

\* image files the asset folder can hold, and the orders glob can list them in
ImageFiles == {<<"mat_a", "dds">>, <<"mat_a", "v2", "dds">>, <<"mat_b", "dds">>}

RECURSIVE Listings(_)
Listings(S) ==
    {<<>>} \cup UNION {{<<f>> \o l : l \in Listings(S \ {f})} : f \in S}

InitMapEntities ==
    /\ objects = <<>>
    /\ materials = <<>>
    /\ modelFiles \in [ModelNames -> EntityModels]
    /\ mapFile \in EntityMaps
    /\ matFiles = [m \in MatNames |-> [loads |-> TRUE, name |-> <<m>>, textures |-> <<>>]]
    /\ listing = [root |-> <<<<"mat_a", "dds">>>>, skins |-> <<>>]
    /\ impCall = NoImpCall
    /\ opCall = NoOpCall
    /\ images = {} /\ ddsFile = [n \in TexNames |-> "absent"]
    /\ iwiOk = [n \in TexNames |-> TRUE] /\ iwi2dds = FALSE /\ texCall = NoTexCall
    /\ buf = <<>> /\ offset = 0 /\ pc = "idle" /\ string = <<>>
    /\ character = None /\ lastCall = NoCall /\ prevOffset = 0 /\ ret = NoRet
    /\ surface = <<>> /\ meshCall = "none" /\ bm = EmptyBMesh
    /\ files = <<>> /\ trace = <<>> /\ results = <<>>

InitMapMaterials ==
    /\ objects = <<>>
    /\ materials = <<>>
    /\ modelFiles = [n \in ModelNames |-> NoModel]
    /\ mapFile \in MaterialMaps
    /\ \E d \in MatDisks, l \in Listings(ImageFiles) :
          /\ matFiles = (IF mapFile.version = "COD1"
                         THEN [m \in MatNames |-> NoMatFile] ELSE d)
          /\ listing = [root |-> IF mapFile.version = "COD1" THEN l ELSE <<>>,
                        skins |-> <<>>]
    /\ impCall = NoImpCall
    /\ opCall = NoOpCall
    /\ images = {} /\ ddsFile = [n \in TexNames |-> "absent"]
    /\ iwiOk = [n \in TexNames |-> TRUE] /\ iwi2dds = FALSE /\ texCall = NoTexCall
    /\ buf = <<>> /\ offset = 0 /\ pc = "idle" /\ string = <<>>
    /\ character = None /\ lastCall = NoCall /\ prevOffset = 0 /\ ret = NoRet
    /\ surface = <<>> /\ meshCall = "none" /\ bm = EmptyBMesh
    /\ files = <<>> /\ trace = <<>> /\ results = <<>>

\* import_ibsp(assetpath, filepath)
import_ibsp(outcome, rows) ==
    /\ impCall.seq < MaxImports
    /\ \E r \in {ImportIbsp(Session, Env(outcome, rows), mapFile,
                             [n \in ModelNames |-> [modelFiles[n] EXCEPT !.name = n]])} :
           /\ objects' = r.st.objects
           /\ materials' = r.st.materials
           /\ images' = r.st.images
           /\ ddsFile' = r.st.dds
           /\ texCall' = r.st.texCall
           /\ impCall' = [NoImpCall EXCEPT
                            !.op = "import_ibsp", !.seq = impCall.seq + 1,
                            !.name = mapFile.name, !.ret = r.ret,
                            !.objects = objects, !.materials = materials,
                            !.xmodelCalls = r.xmodelCalls, !.placed = r.placed,
                            !.materialLog = r.materialLog]
    /\ UNCHANGED <<opCall, notImportVars>>

NextIbsp ==
    \E outcome \in OutcomeChoices, rows \in RowChoices : import_ibsp(outcome, rows)

SpecMapEntities == InitMapEntities /\ [][NextIbsp]_vars

SpecMapMaterials == InitMapMaterials /\ [][NextIbsp]_vars

(***************************************************************************)
(* Material imports in one session                                         *)
(***************************************************************************)
MaxMaterialCalls == 3   \* most material import calls in one session

\* the 'skins' folders the COD1 material imports run on
SkinsFolders ==
    {<<>>, <<<<"mat_a", "dds">>>>,
     <<<<"mat_a", "dds">>, <<"mat_a", "v2", "dds">>, <<"mat_b", "dds">>>>}

InitMaterial ==
    /\ objects = <<>>
    /\ materials = <<>>
    /\ modelFiles = [n \in ModelNames |-> NoModel]
    /\ mapFile = NoMap
    /\ matFiles \in MatDisks
    /\ \E l \in SkinsFolders : listing = [root |-> <<>>, skins |-> l]
    /\ impCall = NoImpCall
    /\ opCall = NoOpCall
    /\ images = {} /\ ddsFile = [n \in TexNames |-> "absent"]
    /\ iwiOk = [n \in TexNames |-> TRUE] /\ iwi2dds = FALSE /\ texCall = NoTexCall
    /\ buf = <<>> /\ offset = 0 /\ pc = "idle" /\ string = <<>>
    /\ character = None /\ lastCall = NoCall /\ prevOffset = 0 /\ ret = NoRet
    /\ surface = <<>> /\ meshCall = "none" /\ bm = EmptyBMesh
    /\ files = <<>> /\ trace = <<>> /\ results = <<>>

\* what a material import leaves in the session, r being what the function
\* gave for the name `requested`
MaterialCall(op, requested, r) ==
    /\ materials' = r.st.materials
    /\ images' = r.st.images
    /\ ddsFile' = r.st.dds
    /\ texCall' = r.st.texCall
    /\ impCall' = [NoImpCall EXCEPT
                     !.op = op, !.seq = impCall.seq + 1,
                     !.ret = IF r.ret THEN [kind |-> "True", id |-> 0] ELSE RetFalse,
                     !.materials = materials, !.requested = requested,
                     !.created = r.created, !.loaded = r.loaded]
    /\ UNCHANGED <<objects, opCall, notImportVars>>

\* _import_material_v14(assetpath, 'skins/<file_name>')
import_material_v14(file_name, outcome, rows) ==
    /\ impCall.seq < MaxMaterialCalls
    /\ \E r \in {ImportMaterialV14(Session, Env(outcome, rows), "skins", file_name)} :
          MaterialCall("_import_material_v14", file_name, r)

\* _import_material_v20(assetpath, material_name)
import_material_v20(material_name, outcome, rows) ==
    /\ impCall.seq < MaxMaterialCalls
    /\ \E r \in {ImportMaterialV20(Session, Env(outcome, rows), material_name)} :
          MaterialCall("_import_material_v20", material_name, r)

\* _import_material_v25(assetpath, material_name)
import_material_v25(material_name, outcome, rows) ==
    /\ impCall.seq < MaxMaterialCalls
    /\ \E r \in {ImportMaterialV25(Session, Env(outcome, rows), material_name)} :
          MaterialCall("_import_material_v25", material_name, r)

NextMaterial ==
    \/ \E file_name \in ImageFiles, outcome \in OutcomeChoices, rows \in RowChoices :
          import_material_v14(file_name, outcome, rows)
    \/ \E m \in MatNames, outcome \in OutcomeChoices, rows \in RowChoices :
          import_material_v20(<<m>>, outcome, rows)
    \/ \E m \in MatNames, outcome \in OutcomeChoices, rows \in RowChoices :
          import_material_v25(<<m>>, outcome, rows)

SpecMaterial == InitMaterial /\ [][NextMaterial]_vars

(***************************************************************************)
(* operators.py: the two import operators                                  *)
(***************************************************************************)
\* A selected file is [dirname, basename]: the components of its folder below
\* '/', and the characters of its name.
OpDirs == {<<>>, <<"maps">>, <<"main", "maps">>, <<"main", "maps", "mp">>}
OpBaseNames ==
    {<<"m", "p", "_", "a">>, <<"m", "p">>, <<"a", "_", "m", "p", "_">>,
     <<"M", "P", "_", "a">>}
OpFilePaths == {[dirname |-> d, basename |-> b] : d \in OpDirs, b \in OpBaseNames}

\* str.startswith
StartsWith(s, prefix) ==
    Len(s) >= Len(prefix) /\ SubSeq(s, 1, Len(prefix)) = prefix

\* os.path.abspath(os.path.join(d, os.pardir)): the folder above d, and '/'
\* above '/'
Pardir(d) == IF d = <<>> THEN <<>> ELSE SubSeq(d, 1, Len(d) - 1)

\* the functions the module `importer` defines
ImporterFunctions ==
    {"import_ibsp", "import_xmodel", "_import_material_v14",
     "_import_material_v20", "_import_material_v25", "_import_texture"}

\* `importer.<fn>`: the function, or AttributeError
ImporterAttr(fn) == IF fn \in ImporterFunctions THEN fn ELSE "AttributeError"

\* lines 20-22 of D3DBSPImporter.execute
D3DBSPAssetPath(filepath) ==
    IF StartsWith(filepath.basename, <<"m", "p", "_">>)
    THEN Pardir(Pardir(filepath.dirname))
    ELSE Pardir(filepath.dirname)

\* line 41 of XModelImporter.execute
XModelAssetPath(filepath) == Pardir(filepath.dirname)

InitOperators ==
    /\ objects = <<>>
    /\ materials = <<>>
    /\ \E f \in EntityModels : modelFiles = [n \in ModelNames |-> [f EXCEPT !.name = n]]
    /\ mapFile \in {NoMap, [NoMap EXCEPT !.loads = TRUE, !.name = "map"]}
    /\ matFiles = [m \in MatNames |-> [loads |-> TRUE, name |-> <<m>>, textures |-> <<>>]]
    /\ listing = SkinsListing
    /\ impCall = NoImpCall
    /\ opCall = NoOpCall
    /\ images = {} /\ ddsFile = [n \in TexNames |-> "absent"]
    /\ iwiOk = [n \in TexNames |-> TRUE] /\ iwi2dds = FALSE /\ texCall = NoTexCall
    /\ buf = <<>> /\ offset = 0 /\ pc = "idle" /\ string = <<>>
    /\ character = None /\ lastCall = NoCall /\ prevOffset = 0 /\ ret = NoRet
    /\ surface = <<>> /\ meshCall = "none" /\ bm = EmptyBMesh
    /\ files = <<>> /\ trace = <<>> /\ results = <<>>

\* D3DBSPImporter.execute on the selected file: line 24 looks up
\* importer.import_d3dbsp, and the exception of a failed lookup leaves
\* execute before anything is imported or returned
D3DBSPImporter_execute(filepath) ==
    /\ LET assetpath == D3DBSPAssetPath(filepath)
           fn        == ImporterAttr("import_d3dbsp")
       IN  /\ fn = "AttributeError"
           /\ opCall' = [op |-> "D3DBSPImporter.execute", filepath |-> filepath,
                         assetpath |-> assetpath, called |-> <<>>,
                         ret |-> "AttributeError"]
    /\ UNCHANGED <<objects, materials, images, ddsFile, texCall, impCall,
                   notImportVars>>

\* XModelImporter.execute on the selected file, which holds the model `name`:
\* import_xmodel(assetpath, filepath, True), then {'FINISHED'} unless the
\* import raised
XModelImporter_execute(filepath, name, outcome, rows) ==
    /\ impCall.seq < MaxImports
    /\ \E assetpath \in {XModelAssetPath(filepath)},
          fn \in {ImporterAttr("import_xmodel")},
          r \in {ImportXModel(Session, Env(outcome, rows), modelFiles[name], TRUE)} :
           /\ fn = "import_xmodel"
           /\ objects' = r.st.objects
           /\ materials' = r.st.materials
           /\ images' = r.st.images
           /\ ddsFile' = r.st.dds
           /\ texCall' = r.st.texCall
           /\ impCall' = [NoImpCall EXCEPT
                            !.op = "import_xmodel", !.seq = impCall.seq + 1,
                            !.name = name, !.import_skeleton = TRUE,
                            !.ret = r.ret, !.objects = objects,
                            !.materials = materials]
           /\ opCall' = [op |-> "XModelImporter.execute", filepath |-> filepath,
                         assetpath |-> assetpath,
                         called |-> <<[function |-> fn, assetpath |-> assetpath,
                                       filepath |-> filepath,
                                       import_skeleton |-> TRUE]>>,
                         ret |-> IF r.ret.kind = "exception" THEN "exception"
                                 ELSE "FINISHED"]
    /\ UNCHANGED notImportVars

NextOperators ==
    \/ \E filepath \in OpFilePaths : D3DBSPImporter_execute(filepath)
    \/ \E filepath \in OpFilePaths, name \in ModelNames,
          outcome \in OutcomeChoices, rows \in RowChoices :
            XModelImporter_execute(filepath, name, outcome, rows)

SpecOperators == InitOperators /\ [][NextOperators]_vars

(***************************************************************************)
(* Texture imports in one session                                          *)
(***************************************************************************)
InitTexture ==
    /\ images = {}
    /\ ddsFile \in [TexNames -> {"absent", "corrupt", "valid"}]
    /\ iwiOk \in [TexNames -> BOOLEAN]
    /\ iwi2dds \in BOOLEAN
    /\ texCall = NoTexCall
    /\ buf = <<>> /\ offset = 0 /\ pc = "idle" /\ string = <<>>
    /\ character = None /\ lastCall = NoCall /\ prevOffset = 0 /\ ret = NoRet
    /\ surface = <<>> /\ meshCall = "none" /\ bm = EmptyBMesh
    /\ objects = <<>> /\ materials = <<>> /\ mapFile = NoMap /\ impCall = NoImpCall
    /\ modelFiles = [n \in ModelNames |-> NoModel]
    /\ matFiles = [m \in MatNames |-> NoMatFile]
    /\ listing = NoListing /\ opCall = NoOpCall
    /\ files = <<>> /\ trace = <<>> /\ results = <<>>

\* _import_texture(assetpath, texture_name); `outcome` is what the converter
\* does if it is run, `rows` the row order the .dds loader delivers
import_texture(name, outcome, rows) ==
    /\ LET r == ImportTexture(images, name, ddsFile[name], iwiOk[name],
                              iwi2dds, outcome, rows)
       IN  /\ texCall' = r.call
           /\ images' = r.store
           /\ ddsFile' = [ddsFile EXCEPT ![name] = r.dds]
    /\ UNCHANGED <<iwiOk, iwi2dds, notTexVars>>

NextTexture ==
    \E name \in TexNames, outcome \in ConverterOutcomes, rows \in RowOrders :
        import_texture(name, outcome, rows)

SpecTexture == InitTexture /\ [][NextTexture]_vars

(***************************************************************************)
(* The reader: calls on one open file                                      *)
(***************************************************************************)
InitReader ==
    /\ buf \in SeqsUpTo(ByteVals, MaxLen)
    /\ offset = 0
    /\ pc = "idle"
    /\ string = <<>>
    /\ character = None
    /\ lastCall = NoCall
    /\ prevOffset = 0
    /\ ret = NoRet
    /\ surface = <<>> /\ meshCall = "none" /\ bm = EmptyBMesh
    /\ images = {} /\ ddsFile = [n \in TexNames |-> "absent"]
    /\ iwiOk = [n \in TexNames |-> FALSE] /\ iwi2dds = FALSE /\ texCall = NoTexCall
    /\ objects = <<>> /\ materials = <<>> /\ mapFile = NoMap /\ impCall = NoImpCall
    /\ modelFiles = [n \in ModelNames |-> NoModel]
    /\ matFiles = [m \in MatNames |-> NoMatFile]
    /\ listing = NoListing /\ opCall = NoOpCall
    /\ files = <<>> /\ trace = <<>> /\ results = <<>>

\* read_fmt(file, fmt_str, namedtuple, fmt_byte_order)
read_fmt(fmt_str, ntFields, order) ==
    /\ pc = "idle"
    /\ LET r == ReadFmt(buf, offset, fmt_str, ntFields, order)
       IN  /\ offset' = r.offset
           /\ ret' = [kind |-> r.kind, vals |-> r.vals]
    /\ prevOffset' = offset
    /\ lastCall' = [op |-> "read_fmt", fmt |-> fmt_str, nt |-> ntFields, order |-> order]
    /\ UNCHANGED <<buf, pc, string, character, notReaderVars>>

\* read_nullstr: entry, `string = b''`, `character = None`
read_nullstr_begin ==
    /\ pc = "idle"
    /\ pc' = "nullstr"
    /\ string' = <<>>
    /\ character' = None
    /\ prevOffset' = offset
    /\ lastCall' = [op |-> "read_nullstr", fmt |-> <<>>, nt |-> 0, order |-> ""]
    /\ ret' = NoRet
    /\ UNCHANGED <<buf, offset, notReaderVars>>

\* one iteration of `while(character != b'\x00')`
read_nullstr_step ==
    /\ pc = "nullstr"
    /\ character # <<0>>
    /\ LET r == FileRead(buf, offset, 1)
       IN  /\ character' = r.data
           /\ string' = string \o r.data
           /\ offset' = r.offset
    /\ UNCHANGED <<buf, pc, lastCall, prevOffset, ret, notReaderVars>>

\* the loop's exit and `return string.rstrip(b'\x00').decode('ascii')`
read_nullstr_return ==
    /\ pc = "nullstr"
    /\ character = <<0>>
    /\ ret' = DecodeAscii(RStripNul(string))
    /\ pc' = "idle"
    /\ UNCHANGED <<buf, offset, string, character, lastCall, prevOffset, notReaderVars>>


NextReader ==
    \/ \E f \in FmtStrs, o \in CallOptions : read_fmt(f, o.nt, o.order)
    \/ read_nullstr_begin
    \/ read_nullstr_step
    \/ read_nullstr_return

SpecReader == InitReader /\ [][NextReader]_vars

InitMesh ==
    /\ surface \in SeqsUpTo(Triangles, MaxTris)
    /\ meshCall = "none"
    /\ bm = EmptyBMesh
    /\ buf = <<>> /\ offset = 0 /\ pc = "idle" /\ string = <<>>
    /\ character = None /\ lastCall = NoCall /\ prevOffset = 0 /\ ret = NoRet
    /\ images = {} /\ ddsFile = [n \in TexNames |-> "absent"]
    /\ iwiOk = [n \in TexNames |-> FALSE] /\ iwi2dds = FALSE /\ texCall = NoTexCall
    /\ objects = <<>> /\ materials = <<>> /\ mapFile = NoMap /\ impCall = NoImpCall
    /\ modelFiles = [n \in ModelNames |-> NoModel]
    /\ matFiles = [m \in MatNames |-> NoMatFile]
    /\ listing = NoListing /\ opCall = NoOpCall
    /\ files = <<>> /\ trace = <<>> /\ results = <<>>

\* the mesh of one map surface (import_ibsp's surface loop body)
import_ibsp_surface ==
    /\ meshCall = "none"
    /\ meshCall' = "ibsp"
    /\ bm' = SetLoops(IbspTriangles(EmptyBMesh, surface))
    /\ UNCHANGED <<surface, notMeshVars>>

\* the mesh of one model surface (import_xmodel's surface loop body)
import_xmodel_surface ==
    /\ meshCall = "none"
    /\ meshCall' = "xmodel"
    /\ bm' = SetLoops(XModelTriangles(EmptyBMesh, surface))
    /\ UNCHANGED <<surface, notMeshVars>>

NextMesh ==
    \/ import_ibsp_surface
    \/ import_xmodel_surface

SpecMesh == InitMesh /\ [][NextMesh]_vars

(***************************************************************************)
(* file_io.py: reader calls on two open files, interleaved                 *)
(***************************************************************************)
PairLen == 2       \* longest buffer of the two files
MaxPairCalls == 2  \* most calls begun on the two files together

Readers == {1, 2}

\* byte values of the two files: NUL and an ASCII letter
PairBytes == {0, 65}

\* the calls a reader makes
PairCalls ==
    {[op |-> "read_fmt", fmt |-> <<"B">>, nt |-> 0, order |-> "<"],
     [op |-> "read_fmt", fmt |-> <<"h">>, nt |-> 0, order |-> ">"],
     [op |-> "read_nullstr", fmt |-> <<>>, nt |-> 0, order |-> ""]}

\* the file object a call of reader i is given: the only file it reads and
\* whose position it moves
FileOf_Shared(fs, i) == fs[1]

FileOf(fs, i) == fs[i]

OpenFile(b) ==
    [buf |-> b, offset |-> 0, pc |-> "idle", string |-> <<>>, character |-> None]

CallsBegun == Len(trace[1]) + Len(trace[2])

InitPair ==
    /\ files \in [Readers -> {OpenFile(b) : b \in SeqsUpTo(PairBytes, PairLen)}]
    /\ trace = [i \in Readers |-> <<>>]
    /\ results = [i \in Readers |-> <<>>]
    /\ buf = <<>> /\ offset = 0 /\ pc = "idle" /\ string = <<>>
    /\ character = None /\ lastCall = NoCall /\ prevOffset = 0 /\ ret = NoRet
    /\ surface = <<>> /\ meshCall = "none" /\ bm = EmptyBMesh
    /\ images = {} /\ ddsFile = [n \in TexNames |-> "absent"]
    /\ iwiOk = [n \in TexNames |-> FALSE] /\ iwi2dds = FALSE /\ texCall = NoTexCall
    /\ objects = <<>> /\ materials = <<>> /\ mapFile = NoMap /\ impCall = NoImpCall
    /\ modelFiles = [n \in ModelNames |-> NoModel]
    /\ matFiles = [m \in MatNames |-> NoMatFile]
    /\ listing = NoListing /\ opCall = NoOpCall

\* reader i calls read_fmt(file, fmt_str, namedtuple, fmt_byte_order)
pair_read_fmt(i, call) ==
    /\ call.op = "read_fmt"
    /\ files[i].pc = "idle"
    /\ CallsBegun < MaxPairCalls
    /\ LET f == FileOf(files, i)
           r == ReadFmt(f.buf, f.offset, call.fmt, call.nt, call.order)
       IN  /\ files' = [files EXCEPT ![i].offset = r.offset]
           /\ results' = [results EXCEPT ![i] =
                            Append(@, [kind |-> r.kind, vals |-> r.vals,
                                       offset |-> r.offset])]
    /\ trace' = [trace EXCEPT ![i] = Append(@, call)]
    /\ UNCHANGED notPairVars

\* reader i enters read_nullstr
pair_nullstr_begin(i, call) ==
    /\ call.op = "read_nullstr"
    /\ files[i].pc = "idle"
    /\ CallsBegun < MaxPairCalls
    /\ files' = [files EXCEPT ![i].pc = "nullstr", ![i].string = <<>>,
                              ![i].character = None]
    /\ trace' = [trace EXCEPT ![i] = Append(@, call)]
    /\ UNCHANGED <<results, notPairVars>>

\* one iteration of reader i's `while(character != b'\x00')`
pair_nullstr_step(i) ==
    /\ files[i].pc = "nullstr"
    /\ files[i].character # <<0>>
    /\ LET f == FileOf(files, i)
           r == FileRead(f.buf, f.offset, 1)
       IN  files' = [files EXCEPT ![i].character = r.data,
                                  ![i].string = @ \o r.data,
                                  ![i].offset = r.offset]
    /\ UNCHANGED <<trace, results, notPairVars>>

\* reader i leaves the loop and returns
pair_nullstr_return(i) ==
    /\ files[i].pc = "nullstr"
    /\ files[i].character = <<0>>
    /\ LET r == DecodeAscii(RStripNul(files[i].string))
       IN  results' = [results EXCEPT ![i] =
                         Append(@, [kind |-> r.kind, vals |-> r.vals,
                                    offset |-> files[i].offset])]
    /\ files' = [files EXCEPT ![i].pc = "idle"]
    /\ UNCHANGED <<trace, notPairVars>>

NextPair ==
    \E i \in Readers :
        \/ \E call \in PairCalls : pair_read_fmt(i, call)
        \/ \E call \in PairCalls : pair_nullstr_begin(i, call)
        \/ pair_nullstr_step(i)
        \/ pair_nullstr_return(i)

SpecPair == InitPair /\ [][NextPair]_vars

(***************************************************************************)
(* Reader properties                                                       *)
(***************************************************************************)
IsReadFmt == lastCall.op = "read_fmt"
Remaining == Len(buf) - prevOffset

\* C1 (as claimed): a read_fmt call whose format needs more bytes than remain
\* fails and leaves the offset where it was before the call.
C1_FailedReadKeepsOffset ==
    (IsReadFmt /\ calcsize(lastCall.fmt) > Remaining)
        => (ret.kind = "struct_error" /\ offset = prevOffset)

\* C2 (as claimed): once read_nullstr has read to the end of a buffer with no
\* NUL (the read returned no byte), the call is over with an end-of-data
\* error; it is not still inside its loop.
C2_NullstrFailsAtEndOfData ==
    (lastCall.op = "read_nullstr" /\ character = <<>>)
        => (pc = "idle" /\ ret.kind = "eof_error")

\* a format of `count` values of one type: "x", "<count>x" or "xx"
OneType(f) == Len(f) = 1 \/ f[1] \in DigitChars \/ f[1] = f[2]
FmtType(f) == f[Len(f)]
FmtCount(f) ==
    IF Len(f) = 1 THEN 1 ELSE IF f[1] \in DigitChars THEN DigitVal(f[1]) ELSE 2
FmtWidth(f) == IF FmtType(f) = "B" THEN 1 ELSE 2

\* the i-th value stored after the call's starting offset, read off the bytes
StoredValue(i) ==
    LET at == prevOffset + (i - 1) * FmtWidth(lastCall.fmt)
    IN  IF FmtType(lastCall.fmt) = "B" THEN buf[at + 1]
        ELSE LET lo == IF lastCall.order = "<" THEN buf[at + 1] ELSE buf[at + 2]
                 hi == IF lastCall.order = "<" THEN buf[at + 2] ELSE buf[at + 1]
                 u  == 256 * hi + lo
             IN  IF hi >= 128 THEN u - 65536 ELSE u

C3_Applies ==
    /\ IsReadFmt
    /\ OneType(lastCall.fmt)
    /\ FmtCount(lastCall.fmt) * FmtWidth(lastCall.fmt) <= Remaining

C3_ValuesAndAdvance ==
    /\ ret.kind \in {"bare", "tuple", "namedtuple"}
    /\ ret.vals = [i \in 1..FmtCount(lastCall.fmt) |-> StoredValue(i)]
    /\ offset = prevOffset + FmtCount(lastCall.fmt) * FmtWidth(lastCall.fmt)

\* C3 (as claimed): with enough bytes, read_fmt returns the `count` stored
\* values in the byte order asked for and advances by count*size; a
\* single-value format yields the bare value, a multi-value format the tuple.
C3_SingleValueIsBare ==
    (C3_Applies /\ lastCall.nt = 0)
        => /\ C3_ValuesAndAdvance
           /\ ret.kind = (IF FmtCount(lastCall.fmt) = 1 THEN "bare" ELSE "tuple")

\* C3 (amended): with enough bytes, read_fmt returns the `count` stored values
\* in the byte order asked for and advances by count*size; called without a
\* namedtuple, it yields the bare value exactly when the format is one type
\* character alone, and a tuple for every other format, "1x" included.
C3_ReadFmtValues ==
    C3_Applies
        => /\ C3_ValuesAndAdvance
           /\ lastCall.nt = 0
                => ret.kind = (IF Len(lastCall.fmt) = 1 THEN "bare" ELSE "tuple")

C3_Witness ==
    /\ C3_Applies
    /\ prevOffset > 0
    /\ lastCall.fmt = <<"1", "h">>
    /\ lastCall.order = ">"
    /\ ret.kind = "tuple"
    /\ ret.vals[1] < 0

\* read_nullstr has returned or raised (the last call was read_nullstr)
NullstrDone == lastCall.op = "read_nullstr" /\ pc = "idle"
HasNul == \E k \in (prevOffset + 1)..Len(buf) : buf[k] = 0
FirstNul ==
    CHOOSE k \in (prevOffset + 1)..Len(buf) :
        buf[k] = 0 /\ \A j \in (prevOffset + 1)..(k - 1) : buf[j] # 0
UpToNul == SubSeq(buf, prevOffset + 1, FirstNul - 1)

\* C4 (as claimed): on a buffer with a NUL at or after the cursor,
\* read_nullstr returns the bytes up to the first NUL as text and leaves the
\* cursor just after that NUL.
C4_ReturnsBytesBeforeNul ==
    (NullstrDone /\ HasNul)
        => (ret.kind = "str" /\ ret.vals = UpToNul /\ offset = FirstNul)

\* C4 (amended): on a buffer with a NUL at or after the cursor, read_nullstr
\* never reads past the first NUL and ends with the cursor just after it; it
\* returns the bytes before that NUL as text when they are all below 0x80,
\* and raises a decode error when one of them is not.
C4_ReadNullstr ==
    /\ (lastCall.op = "read_nullstr" /\ pc = "nullstr" /\ HasNul)
        => /\ offset <= FirstNul
           /\ string = SubSeq(buf, prevOffset + 1, offset)
    /\ (NullstrDone /\ HasNul)
        => /\ offset = FirstNul
           /\ IF \A i \in 1..Len(UpToNul) : UpToNul[i] < 128
              THEN ret.kind = "str" /\ ret.vals = UpToNul
              ELSE ret.kind = "decode_error"

C4_Witness ==
    /\ NullstrDone
    /\ ret.kind = "str"
    /\ ret.vals = <<65>>
    /\ offset < Len(buf)
    /\ buf[offset + 1] = 0

\* C5: whatever calls were made, and whether they failed, the offset is never
\* below what it was when the last call began and never above the buffer's
\* length.
C5_OffsetMonotoneBounded ==
    /\ prevOffset <= offset
    /\ offset <= Len(buf)

C5_Witness ==
    /\ IsReadFmt
    /\ ret.kind = "struct_error"
    /\ 0 < prevOffset
    /\ prevOffset < offset
    /\ offset = Len(buf)

(***************************************************************************)
(* Mesh properties                                                         *)
(***************************************************************************)
\* the surface vertex index a bmesh vertex was made from
SourceIndex(v) == CHOOSE i \in VertexIds : Vertex(i).position = bm.verts[v].co

\* C6: every stored triple (a, b, c) of a map or model surface becomes one
\* face whose corners are the vertices (a, c, b) in that order, and the
\* per-corner uv, color and normal data follow the same (a, c, b) order.
C6_FaceOrderIsACB ==
    meshCall # "none"
        => /\ Len(bm.faces) = Len(surface)
           /\ Len(bm.loops) = Len(surface)
           /\ Len(bm.vertex_normal_buffer) = 3 * Len(surface)
           /\ \A f \in 1..Len(surface) :
                 LET acb == <<surface[f][1], surface[f][3], surface[f][2]>>
                 IN  \A k \in 1..3 :
                        /\ SourceIndex(bm.faces[f][k]) = acb[k]
                        /\ bm.loops[f][k].vert = bm.faces[f][k]
                        /\ bm.loops[f][k].uv = <<"uv", acb[k]>>
                        /\ bm.loops[f][k].color = <<"color", acb[k]>>
                        /\ bm.vertex_normal_buffer[3 * (f - 1) + k] = <<"normal", acb[k]>>

C6_Witness ==
    /\ meshCall = "ibsp"
    /\ surface = <<<<0, 1, 2>>, <<2, 2, 1>>>>
    /\ SourceIndex(bm.faces[1][2]) = 2
    /\ SourceIndex(bm.faces[1][3]) = 1

(***************************************************************************)
(* Texture properties                                                      *)
(***************************************************************************)
Did(e) == \E i \in 1..Len(texCall.events) : texCall.events[i] = e
Times(e) == Cardinality({i \in 1..Len(texCall.events) : texCall.events[i] = e})

\* the last call was for a name images.get() did not find
Fresh == texCall.ret # "none" /\ ~texCall.cached

\* C7: for a name not in the image store, when '<texture>.dds' is there and
\* loads, the converter is not run and IWi.load is not called; IWi.load is
\* called only after the load of the .dds has failed.
C7_DdsShortCircuit ==
    Fresh
        => /\ texCall.ddsBefore = "valid"
                => /\ ~Did("run_iwi2dds")
                   /\ ~Did("iwi_load_ok") /\ ~Did("iwi_load_failed")
                   /\ texCall.ret = "image" /\ texCall.image.origin = "dds"
           /\ \A j \in 1..Len(texCall.events) :
                 texCall.events[j] \in {"iwi_load_ok", "iwi_load_failed"}
                     => \E i \in 1..(j - 1) : texCall.events[i] = "load_dds_failed"

C7_Witness ==
    /\ Fresh
    /\ texCall.ddsBefore = "valid"
    /\ texCall.decodes
    /\ iwi2dds
    /\ texCall.ret = "image"
    /\ texCall.events = <<"isfile_dds", "load_dds_ok", "pack">>

\* C8: for a name not in the image store the call returns an image whenever
\* the .iwi decodes, whatever the .dds file and the converter do; it returns
\* False exactly when the .dds load and the IWi load both fail, and it never
\* ends in an exception of the converter.
C8_IwiFallback ==
    Fresh
        => /\ texCall.ret \in {"image", "False"}
           /\ texCall.decodes => texCall.ret = "image"
           /\ texCall.ret = "False"
                <=> (texCall.ddsBefore # "valid"
                     /\ ddsFile[texCall.name] # "valid"
                     /\ ~texCall.decodes)

C8_Witness ==
    /\ Fresh
    /\ texCall.ddsBefore = "absent"
    /\ texCall.converter = "raised"
    /\ texCall.ret = "image"
    /\ texCall.image.origin = "iwi"

\* the image of the last call holds the rows of `source` in reverse order
RowsReversed ==
    LET w4 == texCall.image.width * Channels
        h  == texCall.image.height
    IN  /\ Len(texCall.source) = h * w4
        /\ \A r \in 0..(h - 1) : \A x \in 1..w4 :
               texCall.image.pixels[r * w4 + x] = texCall.source[(h - 1 - r) * w4 + x]

PixelsKeepLength ==
    Len(texCall.image.pixels) = texCall.image.width * texCall.image.height * Channels

NewImage == Fresh /\ texCall.ret = "image" /\ texCall.created

\* C9 (as claimed): on every path that produces a new image, the .dds path
\* and the IWi path, the rows are flipped exactly once and the buffer keeps
\* length width*height*4.
C9_FlipOnceOnEveryPath ==
    NewImage => (Times("flipud") = 1 /\ RowsReversed /\ PixelsKeepLength)

\* C9 (amended): on the IWi path the rows of the decoded data are flipped
\* exactly once (row r becomes row height-1-r) and the buffer keeps length
\* width*height*4; on the .dds path _import_texture flips nothing and the
\* image keeps the rows as the loader delivered them.
C9_FlipOnceOnIwiPath ==
    NewImage
        => /\ PixelsKeepLength
           /\ IF texCall.image.origin = "iwi"
              THEN Times("flipud") = 1 /\ RowsReversed
              ELSE Times("flipud") = 0 /\ texCall.image.pixels = texCall.source

C9_Witness ==
    /\ NewImage
    /\ texCall.image.origin = "iwi"
    /\ texCall.image.height > 1
    /\ texCall.image.pixels[1] = texCall.source[(texCall.image.height - 1)
                                                 * texCall.image.width * Channels + 1]
    /\ texCall.image.pixels # texCall.source

\* the last call returned an image that an earlier call for the same name
\* had returned: the datablock was in the store before the call
ReturnedBefore == texCall.ret = "image" /\ ~texCall.created

\* C15 (as claimed): once a call for a name has returned an image, every
\* later call for that name returns the same image straight from the image
\* store: it tests for no file, runs no converter, loads no .dds and decodes
\* no .iwi.
C15_MaterializedOnce ==
    ReturnedBefore
        => /\ texCall.image \in images
           /\ texCall.cached
           /\ texCall.events = <<>>

(***************************************************************************)
(* Model import properties                                                 *)
(***************************************************************************)
LastXModel == impCall.op = "import_xmodel"
XFile == modelFiles[impCall.name]

\* the objects the last import call added
NewObjects == (Len(impCall.objects) + 1)..Len(objects)
NewOfType(t) == {k \in NewObjects : objects[k].type = t}

\* the armature objects and the mesh objects of the last call
Armatures == NewOfType("ARMATURE")
Meshes == NewOfType("MESH")

\* the model file and the surface file of the last call loaded
XFilesLoad == XFile.loads /\ XFile.lods # <<>> /\ XFile.surf.loads

SkeletonWanted ==
    impCall.import_skeleton /\ XFile.part.loads /\ Len(XFile.part.bones) > 1

\* C11 (as claimed): when the model and surface files load, import_xmodel
\* returns the model's null; an armature object is created exactly when
\* import_skeleton is true, the skeleton file loaded and it has more than
\* one bone; with an armature every mesh object is parented to it and has
\* an armature modifier targeting it, without one every mesh object is
\* parented to the model's null.
C11_ArmatureIffSkeleton ==
    (LastXModel /\ XFilesLoad)
        => /\ impCall.ret.kind = "object"
           /\ (Armatures # {}) <=> SkeletonWanted
           /\ Cardinality(Armatures) <= 1
           /\ \A k \in Meshes :
                 IF SkeletonWanted
                 THEN /\ objects[k].parent \in Armatures
                      /\ \E i \in 1..Len(objects[k].modifiers) :
                            /\ objects[k].modifiers[i].type = "ARMATURE"
                            /\ objects[k].modifiers[i].object = objects[k].parent
                 ELSE /\ objects[k].parent = impCall.ret.id
                      /\ objects[k].modifiers = <<>>

\* the mesh object of surface i of the last import_xmodel call: the objects
\* made after the model's null, in the order of the surfaces
SurfaceMesh(i) == objects[Len(impCall.objects) + 1 + i]

\* the material found under the i-th name of LOD 0's material list
Lod0Material(i) ==
    LET entry == XFile.lods[1].materials[i]
        key   == IF XFile.version = "COD1" /\ Len(entry) > 1
                 THEN SubSeq(entry, 1, Len(entry) - 1) ELSE entry
    IN  IF \E m \in 1..Len(materials) : materials[m].name = key
        THEN key ELSE NoMaterial

\* every surface of the last call has its mesh object, with the material of
\* the i-th name of LOD 0
SurfacesHaveTheirMaterial ==
    \A i \in 1..Len(XFile.surf.surfaces) :
        /\ i <= Len(XFile.lods[1].materials)
        /\ Len(impCall.objects) + 1 + i <= Len(objects)
        /\ SurfaceMesh(i).type = "MESH"
        /\ SurfaceMesh(i).linked
        /\ SurfaceMesh(i).active_material = Lod0Material(i)

\* C22 (as claimed): when the model and surface files load, import_xmodel
\* completes for every number of surfaces and of material names, also with
\* more surfaces than names, and the mesh object of surface i has as active
\* material the material looked up under the i-th name of LOD 0's list
\* (without its extension for COD1, as it is for COD2 and COD4).
C22_EverySurfaceGetsItsMaterial ==
    (LastXModel /\ XFilesLoad)
        => /\ impCall.ret.kind = "object"
           /\ SurfacesHaveTheirMaterial

\* the same without the completion for more surfaces than names: with a
\* name for every surface the import completes and the materials are as
\* claimed; with a surface that has no name it ends in the exception
C22_WithinMaterialList ==
    (LastXModel /\ XFilesLoad)
        => IF Len(XFile.surf.surfaces) <= Len(XFile.lods[1].materials)
           THEN impCall.ret.kind = "object" /\ SurfacesHaveTheirMaterial
           ELSE impCall.ret.kind = "exception"

(***************************************************************************)
(* Material import properties                                              *)
(***************************************************************************)
LastMaterialCall ==
    impCall.op \in {"_import_material_v14", "_import_material_v20",
                    "_import_material_v25"}

\* the materials made for the requested name
MadeFor(mats, requested) == {i \in 1..Len(mats) : mats[i].requested = requested}

\* an earlier call of the session made a material for the name of the last
\* call
ImportedBefore_Material == MadeFor(impCall.materials, impCall.requested) # {}

\* C21 (as claimed): after any sequence of material imports at most one
\* material was made for each requested name; a call for a name that an
\* earlier call imported returns True, loads no file and makes no material,
\* also when the file holds another name than the requested one.
C21_OneMaterialPerRequestedName ==
    /\ \A i \in 1..Len(materials) :
          Cardinality(MadeFor(materials, materials[i].requested)) = 1
    /\ (LastMaterialCall /\ ImportedBefore_Material)
          => /\ impCall.ret.kind = "True"
             /\ impCall.loaded = <<>>
             /\ ~impCall.created
             /\ materials = impCall.materials

\* the same for the imports whose material got the name the lookup of the
\* next call uses: the requested name without its extension for COD1, the
\* requested name for a material file that holds that name
KeptItsName(m) ==
    m.name = IF Len(m.requested) > 1
             THEN SubSeq(m.requested, 1, Len(m.requested) - 1) ELSE m.requested

C21_OnePerNameWhenNamesAgree ==
    /\ \A i \in 1..Len(materials) :
          KeptItsName(materials[i])
             => Cardinality(MadeFor(materials, materials[i].requested)) = 1
    /\ (/\ LastMaterialCall
        /\ \E i \in MadeFor(impCall.materials, impCall.requested) :
              KeptItsName(impCall.materials[i]))
          => /\ impCall.ret.kind = "True"
             /\ impCall.loaded = <<>>
             /\ ~impCall.created
             /\ materials = impCall.materials

(***************************************************************************)
(* Map import properties                                                   *)
(***************************************************************************)
LastIbsp == impCall.op = "import_ibsp"

\* the objects of the session before the last call
Base == Len(impCall.objects)

EmptyMapImported ==
    LastIbsp /\ mapFile.loads /\ mapFile.surfaces = <<>> /\ mapFile.entities = <<>>

\* C12: for a map that loads with no surface and no entity, import_ibsp
\* returns True and creates exactly three objects: the map null and the
\* '<name>_geometry' and '<name>_entities' nulls, both parented to the map
\* null; it creates no mesh object and does not call import_xmodel.
C12_EmptyMapThreeNulls ==
    EmptyMapImported
        => /\ impCall.ret.kind = "True"
           /\ Len(objects) = Base + 3
           /\ SubSeq(objects, 1, Base) = impCall.objects
           /\ \A k \in NewObjects : objects[k].type = "EMPTY" /\ objects[k].linked
           /\ objects[Base + 1].name = mapFile.name
           /\ objects[Base + 1].parent = 0
           /\ objects[Base + 2].name = mapFile.name \o "_geometry"
           /\ objects[Base + 2].parent = Base + 1
           /\ objects[Base + 3].name = mapFile.name \o "_entities"
           /\ objects[Base + 3].parent = Base + 1
           /\ Meshes = {}
           /\ impCall.xmodelCalls = <<>>

C12_Witness ==
    /\ EmptyMapImported
    /\ impCall.seq = 2
    /\ mapFile.materials # <<>>
    /\ Len(objects) = 6
    /\ objects[6].parent = 4

\* the mesh object of the j-th surface of the map imported last
SurfaceObject(j) == objects[Base + 3 + j]

\* the files of the asset folder that match '<name>.*', in listing order
MatchesOf(name) ==
    {i \in 1..Len(listing.root) :
        /\ Len(listing.root[i]) > 1
        /\ listing.root[i][1] = name}

\* every material-table entry is handled as claimed: a legacy entry goes to
\* the v14 import with the first file matching '<name>.*' or is skipped when
\* there is none, any other entry goes unchanged to the v20 import, and no
\* entry stops the ones after it
C16_EntriesResolved ==
    /\ Len(impCall.materialLog) = Len(mapFile.materials)
    /\ \A l \in 1..Len(mapFile.materials) :
          LET e == impCall.materialLog[l]
              m == mapFile.materials[l]
          IN  /\ e.entry = m
              /\ IF mapFile.version # "COD1" THEN e.via = "v20" /\ e.arg = <<m>>
                 ELSE IF MatchesOf(m) = {} THEN e.via = "skipped"
                 ELSE /\ e.via = "v14"
                      /\ \E i \in MatchesOf(m) :
                            /\ e.arg = listing.root[i]
                            /\ \A j \in MatchesOf(m) : i <= j

\* a surface whose table entry had a material created for it has that
\* material: the name looked up is the name the material was created under
C16_SurfaceFindsItsMaterial ==
    \A k \in (Len(impCall.materials) + 1)..Len(materials) :
        \A l \in 1..Len(impCall.materialLog) :
            (impCall.materialLog[l].via # "skipped"
             /\ impCall.materialLog[l].arg = materials[k].requested)
                => \A j \in 1..Len(mapFile.surfaces) :
                      mapFile.surfaces[j].material = impCall.materialLog[l].entry
                          => SurfaceObject(j).active_material = materials[k].name

\* C16 (as claimed): import_ibsp resolves each entry of a legacy map's
\* material table through '<asset root>/<name>.*' (first match imported, no
\* match skipped, later entries still processed) and passes each entry of
\* any other map unchanged to the v20 import; in both cases each surface's
\* material is looked up under the name its entry's material was created
\* with.
C16_MaterialNamesAgree ==
    (LastIbsp /\ mapFile.loads /\ impCall.ret.kind = "True")
        => C16_EntriesResolved /\ C16_SurfaceFindsItsMaterial

\* C14 (as claimed): every import call ends with a typed result, True or
\* False for import_ibsp and an object or False for each import_xmodel call,
\* for every input, a model without LODs included; and a call that returns
\* False has added no object and no material to the session.
C14_TypedResultNoPartialOutput ==
    impCall.op # "none"
        => /\ impCall.ret.kind \in {"True", "False", "object"}
           /\ \A i \in 1..Len(impCall.xmodelCalls) :
                 impCall.xmodelCalls[i].ret \in {"object", "False"}
           /\ impCall.ret.kind = "False"
                 => objects = impCall.objects /\ materials = impCall.materials

\* the entities of the last import_ibsp call that got an object
Placed == {i \in 1..Len(impCall.placed) : impCall.placed[i] # 0}
EntityObject(i) == objects[impCall.placed[i]]

\* r is `degrees` in thousandths of a radian: degrees * pi / 180, rounded down
IsRadiansOf(r, degrees) ==
    /\ r * 1800 <= degrees * 31416
    /\ degrees * 31416 < (r + 1) * 1800

\* C17: every entity that import_ibsp places has the Euler rotation
\* (angles.z, angles.x, angles.y) of its record, each component converted
\* from degrees to radians and used once; the entity records of the map are
\* not changed by the import.
C17_EntityRotationZXY ==
    /\ [](LastIbsp
            => \A i \in Placed :
                  LET rot == EntityObject(i).rotation_euler
                      a   == mapFile.entities[i].angles
                  IN  /\ Len(rot) = 3
                      /\ IsRadiansOf(rot[1], a.z)
                      /\ IsRadiansOf(rot[2], a.x)
                      /\ IsRadiansOf(rot[3], a.y))
    /\ [][mapFile' = mapFile]_vars

C17_Witness ==
    /\ LastIbsp
    /\ \E i \in Placed :
          /\ mapFile.entities[i].angles = [x |-> -45, y |-> 0, z |-> 270]
          /\ EntityObject(i).rotation_euler = <<4712, -786, 0>>
          /\ EntityObject(i).copy_of # 0

\* the import_xmodel calls of the last import_ibsp call
XCalls == impCall.xmodelCalls
CallFor(i) == {c \in 1..Len(XCalls) : XCalls[c].entity = i}

\* the entities before entity i whose model import returned an object
ImportedBefore(i) ==
    {j \in 1..(i - 1) :
        /\ mapFile.entities[j].name = mapFile.entities[i].name
        /\ \E c \in CallFor(j) : XCalls[c].ret = "object"}

\* C19: during one import_ibsp call import_xmodel is not called again for a
\* name once it has returned an object for it: every later entity of that
\* name is a copy of the first imported object; a name whose import returned
\* False is not remembered, and import_xmodel is called for every entity of
\* that name.
C19_ImportOncePerSucceededName ==
    LastIbsp
        => /\ \A c1 \in 1..Len(XCalls) : \A c2 \in (c1 + 1)..Len(XCalls) :
                 XCalls[c1].name = XCalls[c2].name => XCalls[c1].ret # "object"
           /\ \A i \in 1..Len(impCall.placed) :
                 IF ImportedBefore(i) = {}
                 THEN Cardinality(CallFor(i)) = 1
                 ELSE /\ CallFor(i) = {}
                      /\ i \in Placed
                      /\ \E j \in ImportedBefore(i) :
                            /\ ImportedBefore(j) = {}
                            /\ EntityObject(i).copy_of = impCall.placed[j]

C19_Witness ==
    /\ LastIbsp
    /\ impCall.ret.kind = "True"
    /\ Len(mapFile.entities) = 2
    /\ Len(XCalls) = 1
    /\ XCalls[1].ret = "object"
    /\ EntityObject(2).copy_of = impCall.placed[1]

\* a name whose import fails is imported again for the next entity
C19_WitnessFailedName ==
    /\ LastIbsp
    /\ Len(mapFile.entities) = 2
    /\ Len(XCalls) = 2
    /\ XCalls[1].name = XCalls[2].name
    /\ XCalls[1].ret = "False"

\* the object of entity i is where and how the entity's own record says
PlacedAsRecorded(i) ==
    LET entity == mapFile.entities[i]
        o      == EntityObject(i)
    IN  /\ o.parent = Base + 3
        /\ objects[Base + 3].name = "map_entities"
        /\ o.location = <<entity.origin.x, entity.origin.y, entity.origin.z>>
        /\ o.scale = <<entity.scale.x, entity.scale.y, entity.scale.z>>
        /\ o.rotation_euler = <<Radians(entity.angles.z), Radians(entity.angles.x),
                                Radians(entity.angles.y)>>

\* the objects the entity loop added to the scene
EntityLoopObjects == (Base + 3 + Len(mapFile.surfaces) + 1)..Len(objects)

C20_WitnessAfterFailure ==
    /\ LastIbsp
    /\ impCall.ret.kind = "True"
    /\ Placed = {2}
    /\ PlacedAsRecorded(2)

(***************************************************************************)
(* Operator properties                                                     *)
(***************************************************************************)
\* C18: D3DBSPImporter.execute runs the importer's map import on the selected
\* file with the folder above the file's folder as asset root (two folders
\* above for a file name that starts with 'mp_') and returns {'FINISHED'};
\* XModelImporter.execute runs import_xmodel on the selected file with the
\* folder above the file's folder as asset root and import_skeleton true, and
\* returns {'FINISHED'} whatever the import did.
C18_ExecuteImportsAndFinishes ==
    /\ opCall.op = "D3DBSPImporter.execute"
          => /\ opCall.ret = "FINISHED"
             /\ Len(opCall.called) = 1
             /\ opCall.called[1].filepath = opCall.filepath
             /\ opCall.called[1].assetpath =
                   (IF /\ Len(opCall.filepath.basename) >= 3
                       /\ opCall.filepath.basename[1] = "m"
                       /\ opCall.filepath.basename[2] = "p"
                       /\ opCall.filepath.basename[3] = "_"
                    THEN Pardir(Pardir(opCall.filepath.dirname))
                    ELSE Pardir(opCall.filepath.dirname))
    /\ opCall.op = "XModelImporter.execute"
          => /\ opCall.ret = "FINISHED"
             /\ opCall.called =
                   <<[function |-> "import_xmodel",
                      assetpath |-> Pardir(opCall.filepath.dirname),
                      filepath |-> opCall.filepath, import_skeleton |-> TRUE]>>

\* what the operators do apart from the missing function and the exceptions
\* of import_xmodel: the asset root they compute, and the model import
C18_AssetRootAndModelImport ==
    /\ opCall.op = "D3DBSPImporter.execute"
          => opCall.assetpath =
                IF StartsWith(opCall.filepath.basename, <<"m", "p", "_">>)
                THEN Pardir(Pardir(opCall.filepath.dirname))
                ELSE Pardir(opCall.filepath.dirname)
    /\ opCall.op = "XModelImporter.execute"
          => /\ Len(opCall.called) = 1
             /\ opCall.called[1].assetpath = Pardir(opCall.filepath.dirname)
             /\ opCall.called[1].import_skeleton
             /\ opCall.ret = "FINISHED" <=> impCall.ret.kind # "exception"

(***************************************************************************)
(* Two readers                                                             *)
(***************************************************************************)
\* One call made on a file that nothing else uses, from offset `off`, read
\* off the bytes: what it returns and where it leaves the offset; a
\* read_nullstr with no NUL ahead does not return.
AloneCall(b, off, call) ==
    IF call.op = "read_fmt"
    THEN LET w    == IF call.fmt = <<"B">> THEN 1 ELSE 2
             have == Len(b) - off
         IN  IF have < w
             THEN [done |-> TRUE, kind |-> "struct_error", vals |-> <<>>,
                   offset |-> Len(b)]
             ELSE [done |-> TRUE, kind |-> "bare",
                   vals |-> IF w = 1 THEN <<b[off + 1]>>
                            ELSE <<IF b[off + 1] >= 128
                                   THEN 256 * b[off + 1] + b[off + 2] - 65536
                                   ELSE 256 * b[off + 1] + b[off + 2]>>,
                   offset |-> off + w]
    ELSE IF \E k \in (off + 1)..Len(b) : b[k] = 0
    THEN LET nul == CHOOSE k \in (off + 1)..Len(b) :
                        b[k] = 0 /\ \A j \in (off + 1)..(k - 1) : b[j] # 0
         IN  [done |-> TRUE, kind |-> "str", vals |-> SubSeq(b, off + 1, nul - 1),
              offset |-> nul]
    ELSE [done |-> FALSE, kind |-> "none", vals |-> <<>>, offset |-> Len(b)]

\* the results of a sequence of calls made alone on a file, up to the first
\* call that does not return
RECURSIVE Alone(_, _, _)
Alone(b, off, calls) ==
    IF calls = <<>> THEN <<>>
    ELSE LET r == AloneCall(b, off, Head(calls))
         IN  IF ~r.done THEN <<>>
             ELSE <<[kind |-> r.kind, vals |-> r.vals, offset |-> r.offset]>>
                  \o Alone(b, r.offset, Tail(calls))

\* the offset a file is left at by the calls that have returned
AloneOffset(b, calls) ==
    LET rs == Alone(b, 0, calls) IN IF rs = <<>> THEN 0 ELSE rs[Len(rs)].offset

\* C13: however the calls on two separate files are interleaved, each call
\* returns what it returns when its file's calls run alone, and leaves the
\* file's offset where it is left then; inside read_nullstr the bytes
\* gathered are those of the call's own file.
C13_ReadersIndependent ==
    \A i \in Readers :
        LET returned == SubSeq(trace[i], 1, Len(results[i]))
            start    == AloneOffset(files[i].buf, returned)
        IN  /\ results[i] = Alone(files[i].buf, 0, returned)
            /\ files[i].pc = "idle" => files[i].offset = start
            /\ files[i].pc = "nullstr"
                  => /\ Len(trace[i]) = Len(results[i]) + 1
                     /\ files[i].string = SubSeq(files[i].buf, start + 1, files[i].offset)

C13_Witness ==
    /\ files[1].buf # files[2].buf
    /\ files[1].pc = "nullstr"
    /\ files[1].offset = 1
    /\ Len(results[2]) = 1
    /\ results[2][1].kind = "bare"
    /\ results[2][1].offset = 1
    /\ Len(trace[1]) = 1

====
